---- MODULE Spec2Model ----
(***************************************************************************)
(* Risk scoring and adaptive strategy selection of the phishing            *)
(* attack/defense exercise: the decision-tree classifier, the defense      *)
(* agent's cycle, and the strategy trainer (ledger, learning, selection).  *)
(*                                                                         *)
(* Rates are exact rationals.  A bypassRate or clickRate r is held as the  *)
(* integer r * RateScale, a composite score s as s * ScoreScale.           *)
(***************************************************************************)
EXTENDS Integers, Sequences, FiniteSets, TLC

VARIABLES
    allStrategies,           \* trainer.allStrategies: the strategies, in enumeration order
    allPersonas,             \* trainer.allPersonas: the persona ids, in enumeration order
    strategyScores,          \* trainer.strategyScores: strategy key -> entry
    personaVulnerabilities,  \* trainer.personaVulnerabilities: persona id -> entry
    combinations,            \* trainer.combinations: <<strategy, persona>> -> entry
    learnedCount,            \* history: number of emails learnFromCycle has processed
    seenStrategy,            \* history: emails processed per strategy key
    seenPersona,             \* history: emails processed per persona key
    seenCombination,         \* history: emails processed per combination key
    explorationRate,         \* trainer.explorationRate, in percent
    count,                   \* the count argument of the last selectBestTargets call
    selectedTargets,         \* the personas that call returned, in order
    targetsBy,               \* which copy of selectBestTargets ran: "none", "first", "second"
    bestStrategy,            \* the strategy the last selectBestStrategy call returned
    strategyBy,              \* how it was chosen: "none", "exploration", "exploitation"
    features,                \* the feature set handed to the decision tree
    classification,          \* what DecisionTreeClassifier returned for it
    inbox,                   \* the inbox file: the emails, in order of deployment
    processedEmailIds,       \* defense agent: ids of the emails it has analysed
    defensePhase,            \* defense agent: "idle", or "analyzing" inside a cycle
    emails,                  \* defense cycle: its copy of the inbox, read at the start
    newEmails,               \* defense cycle: positions in emails still to analyse
    analysed,                \* history: ids the current or last cycle has analysed
    usedStrategies,          \* attack cycle: the strategies assigned so far in this cycle
    targetStrategies,        \* attack cycle: the <<persona, strategy>> pairs assigned so far
    learnedFile,             \* the learned-strategies file
    learnedBackup,           \* the backup of the learned-strategies file
    inboxRead,               \* history: how the last learnFromCycle read the inbox file
    saved,                   \* history: how the last learnFromCycle's save ended
    generatedEmails,         \* attack cycle: the emails it generated, until it has learned
    clickFlows,              \* server: email id -> click timers of simulateUserFlow pending
    clickWrites,             \* history: email id -> times the server set clicked to true
    givenEmail,              \* the email handed to the classifiers, or the data of one generated
    analysis,                \* what the classifiers, or calculateRiskScore, made of it
    agentRun,                \* one agent process: isRunning, its timer, how it ended
    cyclesInFlight,          \* that agent's cycles suspended at an await, by cycle number
    stats,                   \* defense agent: the totals of this.stats
    metricsFile,             \* the metrics file: the totals and the processed ids saved
    timesClassified,         \* history: email id -> times classifyEmail has returned for it
    restarts,                \* history: times the defense agent has been started again
    events,                  \* server: the events array, in order of logging
    userFlows                \* server: the runs of simulateUserFlow, by run number

trainerVars == <<allStrategies, allPersonas, strategyScores, personaVulnerabilities, combinations>>
historyVars == <<learnedCount, seenStrategy, seenPersona, seenCombination>>
selectionVars == <<explorationRate, count, selectedTargets, targetsBy, bestStrategy, strategyBy>>

classifierVars == <<features, classification>>

defenseVars == <<inbox, processedEmailIds, defensePhase, emails, newEmails, analysed>>

cycleVars == <<usedStrategies, targetStrategies>>
persistVars == <<learnedFile, learnedBackup, inboxRead, saved>>
systemVars == <<generatedEmails, clickFlows, clickWrites>>
analysisVars == <<givenEmail, analysis>>
runVars == <<agentRun, cyclesInFlight>>
metricsVars == <<stats, metricsFile, timesClassified, restarts>>
eventVars == <<events, userFlows>>

vars == <<trainerVars, historyVars, selectionVars, classifierVars, defenseVars, cycleVars,
          persistVars, systemVars, analysisVars, runVars, metricsVars, eventVars>>

----------------------------------------------------------------------------
(* Bounds of the model *)

MaxLearned == 4
MaxCount == 4
MaxInbox == 3
MaxSaves == 3
MaxCycles == 2
MaxFlows == 2
MaxUrls == 2
MaxSeeded == 3
MaxOverlap == 2
MaxRestarts == 1
MaxRuns == 1
MaxAwaits == 2
MaxTimerCycles == 3

(* Program constants *)

minAttemptsForLearning == 3
MAX_TARGETS_PER_CYCLE == 3
learningDecayNum == 19
learningDecayDen == 20
defaultExplorationRate == 20

----------------------------------------------------------------------------
(* Arithmetic *)

RECURSIVE Pow(_, _)
Pow(b, e) == IF e = 0 THEN 1 ELSE b * Pow(b, e - 1)

Min(a, b) == IF a < b THEN a ELSE b
Max(a, b) == IF a > b THEN a ELSE b

\* Every rate the trainer can reach within MaxLearned records is a multiple of
\* 1/RateScale: running means divide by 1, 2, 3, each decay step by 20.
RateScale == 6 * Pow(learningDecayDen, Max(MaxLearned - minAttemptsForLearning, 0))
ScoreScale == 10 * RateScale
Hundred == 100 * RateScale

----------------------------------------------------------------------------
(* Strategies and personas *)

\* ATTACK_STRATEGIES, by position: a strategy is its index in this table, which
\* stands for its key "model|attackLevel|urgencyLevel"
ATTACK_STRATEGIES == <<"basic", "advanced", "expert">>

\* TARGET_PERSONAS, by id: the accessLevel of each persona
TARGET_PERSONAS == <<"High", "High", "Critical", "Critical", "High">>

attackLevel(s) == ATTACK_STRATEGIES[s]
accessLevel(p) == TARGET_PERSONAS[p]

SeqToSet(q) == {q[i] : i \in 1..Len(q)}

Strategies == SeqToSet(allStrategies)
PersonaIds == SeqToSet(allPersonas)

----------------------------------------------------------------------------
(* JS objects used as maps: functions whose domain is the set of keys present *)

EmptyMap == [k \in {} |-> 0]

MapPut(m, key, value) ==
    [k \in (DOMAIN m) \cup {key} |-> IF k = key THEN value ELSE m[k]]

----------------------------------------------------------------------------
(* StrategyTrainer: ledger entries *)

NoPersona == 0

ZeroStrategyEntry ==
    [attempts |-> 0, successes |-> 0, bypassRate |-> 0, clickRate |-> 0, score |-> 0]

ZeroPersonaEntry ==
    [attempts |-> 0, successes |-> 0, bypassRate |-> 0, clickRate |-> 0,
     vulnerabilityScore |-> 0]

ZeroCombinationEntry ==
    [attempts |-> 0, successes |-> 0, bypassRate |-> 0, clickRate |-> 0]

defaultBypass(s) ==
    CASE attackLevel(s) = "expert"   -> 40
      [] attackLevel(s) = "advanced" -> 30
      [] OTHER                       -> 20

defaultVulnerability(p) ==
    CASE accessLevel(p) = "Critical" -> 50
      [] accessLevel(p) = "High"     -> 40
      [] accessLevel(p) = "Medium"   -> 30
      [] accessLevel(p) = "Low"      -> 20
      [] OTHER                       -> 30

\* initializeDefaultScores giving every enumerated strategy its default entry
SeedStrategies_Reseeds(ss) ==
    [s \in (DOMAIN ss) \cup Strategies |->
        IF s \in DOMAIN ss /\ s \notin Strategies THEN ss[s]
        ELSE [attempts |-> 0, successes |-> 0,
              bypassRate |-> defaultBypass(s) * RateScale, clickRate |-> 0,
              score |-> defaultBypass(s) * ScoreScale]]

\* initializeDefaultScores: seeds every strategy and persona the map lacks
SeedStrategies(ss) ==
    [s \in (DOMAIN ss) \cup Strategies |->
        IF s \in DOMAIN ss THEN ss[s]
        ELSE [attempts |-> 0, successes |-> 0,
              bypassRate |-> defaultBypass(s) * RateScale, clickRate |-> 0,
              score |-> defaultBypass(s) * ScoreScale]]

SeedPersonas(pv) ==
    [p \in (DOMAIN pv) \cup PersonaIds |->
        IF p \in DOMAIN pv THEN pv[p]
        ELSE [attempts |-> 0, successes |-> 0,
              bypassRate |-> defaultVulnerability(p) * RateScale, clickRate |-> 0,
              vulnerabilityScore |-> defaultVulnerability(p) * ScoreScale]]

\* calculateSuccessScore: (bypass/100 * 0.7 + click/100 * 0.3) * 100, in ScoreScale units
calculateSuccessScore(bypassRate, clickRate) == 7 * bypassRate + 3 * clickRate

----------------------------------------------------------------------------
(* StrategyTrainer.getEmailStatuses: the inbox file is a map id -> email *)

\* the statuses the agents write into the inbox
Statuses == {"delivered", "blocked", "reported"}

InboxEmails == [status : Statuses, clicked : BOOLEAN]

emailBypassedIn(email) ==
    \/ email.status = "delivered"
    \/ email.status = "unset"
    \/ (email.status # "blocked" /\ email.status # "reported")

\* what readFileSync/JSON.parse of the inbox file gives the trainer: no file, an
\* exception, or the emails by id
MissingInbox == [state |-> "missing"]
UnreadableInbox == [state |-> "unreadable"]
ReadableInbox(inboxView) == [state |-> "readable", emails |-> inboxView]

\* the statuses object: an entry for every id asked for, or none at all when the
\* file does not exist or reading it throws
getEmailStatuses_AtGeneration(inboxFile, emailIds) ==
    IF inboxFile.state = "readable"
    THEN [id \in emailIds |-> [bypassed |-> TRUE, clicked |-> FALSE]]
    ELSE EmptyMap

getEmailStatuses(inboxFile, emailIds) ==
    IF inboxFile.state = "readable"
    THEN [id \in emailIds |->
            IF id \in DOMAIN inboxFile.emails
            THEN [bypassed |-> emailBypassedIn(inboxFile.emails[id]),
                  clicked  |-> inboxFile.emails[id].clicked = TRUE]
            ELSE [bypassed |-> FALSE, clicked |-> FALSE]]
    ELSE EmptyMap

----------------------------------------------------------------------------
(* StrategyTrainer.learnFromCycle *)

\* UpdateRate with the decay applied from attempts = minAttempts on (>= for >)
UpdateRate_DecayTooEarly(old, attempts, hit) ==
    IF attempts >= minAttemptsForLearning
    THEN (old * learningDecayNum) \div learningDecayDen
         + (IF hit THEN (Hundred * (learningDecayDen - learningDecayNum)) \div learningDecayDen
                   ELSE 0)
    ELSE (old * (attempts - 1) + (IF hit THEN Hundred ELSE 0)) \div attempts

\* UpdateRate with the old rate left unweighted in the decay branch
UpdateRate_Unweighted(old, attempts, hit) ==
    IF attempts > minAttemptsForLearning
    THEN old
         + (IF hit THEN (Hundred * (learningDecayDen - learningDecayNum)) \div learningDecayDen
                   ELSE 0)
    ELSE (old * (attempts - 1) + (IF hit THEN Hundred ELSE 0)) \div attempts

\* one rate of one entry, after attempts has been incremented to `attempts`
UpdateRate(old, attempts, hit) ==
    IF attempts > minAttemptsForLearning
    THEN (old * learningDecayNum) \div learningDecayDen
         + (IF hit THEN (Hundred * (learningDecayDen - learningDecayNum)) \div learningDecayDen
                   ELSE 0)
    ELSE (old * (attempts - 1) + (IF hit THEN Hundred ELSE 0)) \div attempts

\* RecordOutcome counting an attempt only when the email bypassed
RecordOutcome_CountsBypassOnly(entry, bypassed, clicked) ==
    [entry EXCEPT
        !.attempts   = IF bypassed THEN @ + 1 ELSE @,
        !.bypassRate = UpdateRate(@, entry.attempts + 1, bypassed),
        !.clickRate  = UpdateRate(@, entry.attempts + 1, clicked),
        !.successes  = IF bypassed THEN @ + 1 ELSE @]

\* attempts += 1, both rates, successes
RecordOutcome(entry, bypassed, clicked) ==
    [entry EXCEPT
        !.attempts   = @ + 1,
        !.bypassRate = UpdateRate(@, entry.attempts + 1, bypassed),
        !.clickRate  = UpdateRate(@, entry.attempts + 1, clicked),
        !.successes  = IF bypassed THEN @ + 1 ELSE @]

LearnStrategy(ss, key, bypassed, clicked) ==
    LET old == IF key \in DOMAIN ss THEN ss[key] ELSE ZeroStrategyEntry
        new == RecordOutcome(old, bypassed, clicked)
    IN  MapPut(ss, key,
               [new EXCEPT !.score = calculateSuccessScore(new.bypassRate, new.clickRate)])

LearnPersona(pv, personaId, bypassed, clicked) ==
    IF personaId = NoPersona THEN pv
    ELSE LET old == IF personaId \in DOMAIN pv THEN pv[personaId] ELSE ZeroPersonaEntry
             new == RecordOutcome(old, bypassed, clicked)
         IN  MapPut(pv, personaId,
                    [new EXCEPT !.vulnerabilityScore =
                                    calculateSuccessScore(new.bypassRate, new.clickRate)])

\* LearnCombination recording a combination only for an email that bypassed
LearnCombination_OnlyBypassed(cb, key, personaId, bypassed, clicked) ==
    IF personaId = NoPersona \/ ~bypassed THEN cb
    ELSE LET ck  == <<key, personaId>>
             old == IF ck \in DOMAIN cb THEN cb[ck] ELSE ZeroCombinationEntry
         IN  MapPut(cb, ck, RecordOutcome(old, bypassed, clicked))

LearnCombination(cb, key, personaId, bypassed, clicked) ==
    IF personaId = NoPersona THEN cb
    ELSE LET ck  == <<key, personaId>>
             old == IF ck \in DOMAIN cb THEN cb[ck] ELSE ZeroCombinationEntry
         IN  MapPut(cb, ck, RecordOutcome(old, bypassed, clicked))

LearnEmail_SkipsAbsent(ledger, email, emailStatuses) ==
    IF email.id \notin DOMAIN emailStatuses \/ ~emailStatuses[email.id].bypassed
    THEN ledger
    ELSE [ss |-> LearnStrategy(ledger.ss, email.strategy, TRUE, emailStatuses[email.id].clicked),
          pv |-> LearnPersona(ledger.pv, email.persona, TRUE, emailStatuses[email.id].clicked),
          cb |-> LearnCombination(ledger.cb, email.strategy, email.persona, TRUE,
                                  emailStatuses[email.id].clicked)]

\* the body of emailsGenerated.forEach, on the ledger [ss, pv, cb]
LearnEmail(ledger, email, emailStatuses) ==
    LET emailStatus == IF email.id \in DOMAIN emailStatuses
                       THEN emailStatuses[email.id]
                       ELSE [bypassed |-> FALSE, clicked |-> FALSE]
        b == emailStatus.bypassed
        c == emailStatus.clicked
    IN  [ss |-> LearnStrategy(ledger.ss, email.strategy, b, c),
         pv |-> LearnPersona(ledger.pv, email.persona, b, c),
         cb |-> LearnCombination(ledger.cb, email.strategy, email.persona, b, c)]

RECURSIVE LearnAll(_, _, _)
LearnAll(ledger, emailsGenerated, emailStatuses) ==
    IF emailsGenerated = <<>> THEN ledger
    ELSE LearnAll(LearnEmail(ledger, Head(emailsGenerated), emailStatuses), Tail(emailsGenerated),
                  emailStatuses)

\* the ledger after learnFromCycle, before it is saved
learnFromCycle(ledger, emailsGenerated, inboxFile) ==
    IF Len(emailsGenerated) = 0 THEN ledger
    ELSE LearnAll(ledger, emailsGenerated,
                  getEmailStatuses(inboxFile, {emailsGenerated[i].id :
                                                   i \in 1..Len(emailsGenerated)}))

----------------------------------------------------------------------------
(* StrategyTrainer: the learned-strategies file and its backup *)

NoFile == [exists |-> FALSE]

\* a file a failed write left incomplete: JSON.parse throws on it
TruncatedFile == [exists |-> TRUE, parses |-> FALSE]

\* JSON.stringify(data) of saveLearnedPatterns, without the lastUpdated stamp
LearnedDocument(ledger, rate) ==
    [exists |-> TRUE, parses |-> TRUE,
     strategyScores |-> ledger.ss,
     personaVulnerabilities |-> ledger.pv,
     combinations |-> ledger.cb,
     learningParams |-> [successThreshold |-> 30, explorationRate |-> rate,
                         minAttemptsForLearning |-> minAttemptsForLearning]]

\* how the file system answers one saveLearnedPatterns
DiskOutcomes == {"ok", "copyFails", "writeFails", "writeTruncates"}

\* saveLearnedPatterns without the copy to the backup
saveLearnedPatterns_NoBackup(file, backup, document, disk) ==
    CASE disk = "ok" -> [file |-> document, backup |-> backup, saved |-> "ok"]
      [] OTHER       -> [file |-> file, backup |-> backup, saved |-> "failed"]

\* saveLearnedPatterns: copy the file over the backup if it exists, then write the
\* document; an exception of either call is caught and logged
saveLearnedPatterns(file, backup, document, disk) ==
    LET afterCopy == IF file.exists THEN file ELSE backup
    IN  CASE disk = "ok" ->
               [file |-> document, backup |-> afterCopy, saved |-> "ok"]
          [] disk = "copyFails" /\ file.exists ->
               [file |-> file, backup |-> backup, saved |-> "failed"]
          [] disk = "writeTruncates" ->
               [file |-> TruncatedFile, backup |-> afterCopy, saved |-> "failed"]
          [] OTHER ->
               [file |-> file, backup |-> afterCopy, saved |-> "failed"]

\* loadLearnedPatterns: the three maps of the file, or empty maps when the file
\* does not exist or cannot be parsed
loadLearnedPatterns_IgnoresFile(file) ==
    [ss |-> EmptyMap, pv |-> EmptyMap, cb |-> EmptyMap]

loadLearnedPatterns(file) ==
    IF file.exists /\ file.parses
    THEN [ss |-> file.strategyScores, pv |-> file.personaVulnerabilities,
          cb |-> file.combinations]
    ELSE [ss |-> EmptyMap, pv |-> EmptyMap, cb |-> EmptyMap]

----------------------------------------------------------------------------
(* DecisionTreeClassifier: the tree and its traversal *)

\* confidences are held in percent
Leaf(riskLevel, riskScore, confidence) ==
    [riskLevel |-> riskLevel, riskScore |-> riskScore, confidence |-> confidence]

Branch(condition, trueBranch, falseBranch) ==
    [condition |-> condition, trueBranch |-> trueBranch, falseBranch |-> falseBranch]

\* the value a condition closure returns: true, false or null
JsBool(b) == IF b THEN "true" ELSE "false"

\* the root condition without its hasUrls test
rootCondition_IgnoresHasUrls(f) == JsBool(f.urlAuthenticityScore < 30)

\* the root condition: null when the email has no URLs
rootCondition(f) ==
    IF f.hasUrls THEN JsBool(f.urlAuthenticityScore < 30) ELSE "null"

\* the condition closures of the tree, numbered from the root
condition(k, f) ==
    CASE k = 1 -> rootCondition(f)
      [] k = 2 -> JsBool(f.credentialKeywords >= 2 /\ f.urgencyKeywords >= 2)
      [] k = 3 -> JsBool(f.urlDomainMismatch)
      [] k = 4 -> JsBool(f.totalSuspicionScore >= 20)
      [] k = 5 -> JsBool(/\ f.senderAuthenticityScore < 40
                         /\ (f.credentialKeywords >= 1 \/ f.securityKeywords >= 1))
      [] k = 6 -> JsBool(f.totalUrgencyScore >= 15 /\ f.professionalismScore < 60)
      [] k = 7 -> JsBool(/\ f.hasSuspiciousUrls
                         /\ f.urlAuthenticityScore >= 30
                         /\ f.urlAuthenticityScore < 60)
      [] k = 8 -> JsBool(/\ f.grammarScore < 50
                         /\ (f.credentialKeywords >= 1 \/ f.financialKeywords >= 1))
      [] k = 9 -> JsBool(/\ f.professionalismScore >= 70
                         /\ f.grammarScore >= 60
                         /\ f.senderAuthenticityScore >= 60)

buildDecisionTree ==
    Branch(1, Leaf("high", 85, 90),
    Branch(2, Leaf("high", 80, 85),
    Branch(3, Leaf("high", 75, 80),
    Branch(4, Leaf("high", 70, 75),
    Branch(5, Leaf("medium", 55, 70),
    Branch(6, Leaf("medium", 50, 65),
    Branch(7, Leaf("medium", 45, 60),
    Branch(8, Leaf("medium", 40, 55),
    Branch(9, Leaf("low", 25, 80),
              Leaf("low", 30, 60))))))))))

\* a node is a leaf when it has a riskLevel; a condition that is not true, be it
\* false or null, leads to the false branch; the fallback is low, 30, 0.5
RECURSIVE traverseTree(_, _)
traverseTree(f, node) ==
    IF "riskLevel" \in DOMAIN node THEN node
    ELSE IF "condition" \in DOMAIN node
         THEN IF condition(node.condition, f) = "true" /\ "trueBranch" \in DOMAIN node
              THEN traverseTree(f, node.trueBranch)
              ELSE IF "falseBranch" \in DOMAIN node
                   THEN traverseTree(f, node.falseBranch)
                   ELSE Leaf("low", 30, 50)
         ELSE Leaf("low", 30, 50)

\* classify, from the extracted features on
classify(f) == traverseTree(f, buildDecisionTree)

----------------------------------------------------------------------------
(* AutonomousDefenseAgent: classifyEmail *)

knownLegitimateDomains ==
    {"securebank.com", "firstnational.com", "metrocu.org", "pacifictrust.com",
     "communityfirst.com"}

\* An email's content is what classifyEmail reads of it: the sender's domain ("" when
\* senderEmail has no @), whether senderEmail contains noreply, its URLs (each with its
\* host and what the shortener, IP and http:// tests say of it), the numbers of urgency,
\* credential and security keywords found, and whether subject and content are
\* strings at all.
RECURSIVE analyzeUrlAuthenticityFrom(_, _, _)
analyzeUrlAuthenticityFrom(score, urls, senderDomain) ==
    IF urls = <<>> THEN Max(0, Min(100, score))
    ELSE LET url == Head(urls) IN
         analyzeUrlAuthenticityFrom(
             score - (IF senderDomain # "" /\ url.domain # "" /\ url.domain # senderDomain
                      THEN 30 ELSE 0)
                   - (IF url.shortener THEN 20 ELSE 0)
                   - (IF url.ip THEN 35 ELSE 0)
                   - (IF url.http THEN 15 ELSE 0),
             Tail(urls), senderDomain)

analyzeUrlAuthenticity(urls, senderDomain) ==
    IF urls = <<>> THEN 100 ELSE analyzeUrlAuthenticityFrom(100, urls, senderDomain)

urlPenalty(content) ==
    IF content.urls = <<>> THEN 0
    ELSE LET urlAuthenticity == analyzeUrlAuthenticity(content.urls, content.senderDomain) IN
         IF urlAuthenticity < 30 THEN 45
         ELSE IF urlAuthenticity < 60 THEN 30
         ELSE IF urlAuthenticity < 80 THEN 15
         ELSE IF urlAuthenticity < 100 THEN 5
         ELSE 0

keywordPenalty(urgencyCount, credentialCount, securityCount) ==
    IF urgencyCount >= 2 /\ credentialCount >= 2 THEN 35
    ELSE IF credentialCount >= 2 /\ urgencyCount >= 1 THEN 30
    ELSE IF credentialCount >= 1 /\ urgencyCount >= 1 THEN 20
    ELSE IF securityCount >= 1 /\ urgencyCount >= 1 THEN 18
    ELSE IF securityCount >= 1 THEN 12
    ELSE IF credentialCount >= 1 THEN 8
    ELSE IF urgencyCount >= 2 THEN 10
    ELSE IF urgencyCount >= 1 THEN 5
    ELSE 0

senderPenalty(content) ==
    (IF content.noreply THEN 3 ELSE 0)
    + (IF content.senderDomain # "" /\ content.senderDomain \notin knownLegitimateDomains
       THEN 10 ELSE 0)

\* classifyEmail: the inline scorer, confidence in percent
classifyEmail(content) ==
    LET riskScore ==
            Min(100, Max(0, 25 + urlPenalty(content)
                               + keywordPenalty(content.urgencyCount, content.credentialCount,
                                                content.securityCount)
                               + senderPenalty(content)))
    IN  [riskLevel |-> IF riskScore >= 75 THEN "high"
                       ELSE IF riskScore >= 50 THEN "medium" ELSE "low",
         riskScore |-> riskScore,
         confidence |-> IF riskScore > 70 THEN 90 ELSE IF riskScore > 40 THEN 70 ELSE 60]

\* the status the cycle leaves on an email, reporting nothing: medium keeps the status
statusAfterAnalysis_MediumKept(status, riskLevel) ==
    IF riskLevel = "high" THEN "blocked" ELSE status

\* the status the cycle leaves on an email it has classified
statusAfterAnalysis(status, riskLevel) ==
    IF riskLevel = "high" THEN "blocked"
    ELSE IF riskLevel = "medium" THEN "reported"
    ELSE status

----------------------------------------------------------------------------
(* The learning loop on a freshly seeded ledger *)

Ledger == [ss |-> strategyScores, pv |-> personaVulnerabilities, cb |-> combinations]

\* the emails of one attack cycle: one per selected persona, ids 1..n
CycleEmails(n) ==
    {e \in [1..n -> [id : 1..n, strategy : Strategies, persona : PersonaIds]] :
        /\ \A i \in 1..n : e[i].id = i
        /\ \A i, j \in 1..n : i # j => e[i].persona # e[j].persona}

InboxViews(n) ==
    UNION {[d -> InboxEmails] : d \in SUBSET (1..n)}

CountWhere(emailsGenerated, strategies, personas) ==
    Cardinality({i \in 1..Len(emailsGenerated) :
        /\ emailsGenerated[i].strategy \in strategies
        /\ emailsGenerated[i].persona \in personas})

NoStrategy == 0

\* no selection has been made yet
NothingSelected ==
    /\ count = 0
    /\ selectedTargets = <<>>
    /\ targetsBy = "none"
    /\ bestStrategy = NoStrategy
    /\ strategyBy = "none"
    /\ usedStrategies = {}
    /\ targetStrategies = <<>>

NoFeatures == [hasUrls |-> FALSE]
NoClassification == [riskLevel |-> "none"]

\* the classifier has not been called
ClassifierIdle ==
    /\ features = NoFeatures
    /\ classification = NoClassification

\* the defense agent as constructed without a metrics file, before any deployment
DefenseIdle ==
    /\ inbox = <<>>
    /\ processedEmailIds = {}
    /\ defensePhase = "idle"
    /\ emails = <<>>
    /\ newEmails = <<>>
    /\ analysed = {}

\* no learned-strategies file yet, no learnFromCycle call yet
NoEmail == [given |-> FALSE]
NoAnalysis == [done |-> FALSE]

\* no agent process has been started
NoRun == [agent |-> "none", isRunning |-> FALSE, cycleInterval |-> FALSE, exit |-> "none",
          started |-> 0, totalCycles |-> 0, cycleErrors |-> 0]

RunIdle ==
    /\ agentRun = NoRun
    /\ cyclesInFlight = EmptyMap

ZeroStats ==
    [totalEmailsAnalyzed |-> 0, totalEmailsBlocked |-> 0, totalEmailsReported |-> 0,
     totalEmailsBypassed |-> 0]

\* the defense agent as constructed where no metrics file exists
MetricsIdle ==
    /\ stats = ZeroStats
    /\ metricsFile = [stats |-> ZeroStats, processedEmailIds |-> {}]
    /\ timesClassified = EmptyMap
    /\ restarts = 0

\* the server as started: no event logged, no simulation run
EventsIdle ==
    /\ events = <<>>
    /\ userFlows = <<>>

\* no email has been handed to a classifier
AnalysisIdle ==
    /\ givenEmail = NoEmail
    /\ analysis = NoAnalysis

\* no attack cycle under way, no simulation flow started
SystemIdle ==
    /\ generatedEmails = <<>>
    /\ clickFlows = EmptyMap
    /\ clickWrites = EmptyMap

NothingSaved ==
    /\ learnedFile = NoFile
    /\ learnedBackup = NoFile
    /\ inboxRead = "none"
    /\ saved = "none"

\* the learning loop runs the trainer on two of the strategies and two of the personas
LearnStrategies == <<1, 2>>
LearnPersonas == <<1, 3>>

InitLearn ==
    /\ allStrategies = LearnStrategies
    /\ allPersonas = LearnPersonas
    /\ strategyScores = SeedStrategies(EmptyMap)
    /\ personaVulnerabilities = SeedPersonas(EmptyMap)
    /\ combinations = EmptyMap
    /\ learnedCount = 0
    /\ seenStrategy = [s \in Strategies |-> 0]
    /\ seenPersona = [p \in PersonaIds |-> 0]
    /\ seenCombination = [k \in Strategies \X PersonaIds |-> 0]
    /\ NothingSelected
    /\ explorationRate = defaultExplorationRate
    /\ ClassifierIdle
    /\ DefenseIdle
    /\ NothingSaved
    /\ SystemIdle
    /\ AnalysisIdle
    /\ RunIdle
    /\ MetricsIdle
    /\ EventsIdle

\* learnFromCycle(cycleResult, emailsGenerated, industryMetrics), with what the
\* inbox file holds when it is read and how the disk answers the save
LearnFromCycleWith(emailsGenerated, inboxFile, disk) ==
    /\ Len(emailsGenerated) > 0
    /\ \E new \in {learnFromCycle(Ledger, emailsGenerated, inboxFile)} :
         /\ strategyScores' = new.ss
         /\ personaVulnerabilities' = new.pv
         /\ combinations' = new.cb
         /\ \E files \in {saveLearnedPatterns(learnedFile, learnedBackup,
                                               LearnedDocument(new, explorationRate), disk)} :
              /\ learnedFile' = files.file
              /\ learnedBackup' = files.backup
              /\ saved' = files.saved
    /\ inboxRead' = inboxFile.state
    /\ learnedCount' = learnedCount + Len(emailsGenerated)
    /\ seenStrategy' = [s \in Strategies |->
           seenStrategy[s] + CountWhere(emailsGenerated, {s}, PersonaIds)]
    /\ seenPersona' = [p \in PersonaIds |->
           seenPersona[p] + CountWhere(emailsGenerated, Strategies, {p})]
    /\ seenCombination' = [k \in Strategies \X PersonaIds |->
           seenCombination[k] + CountWhere(emailsGenerated, {k[1]}, {k[2]})]
    /\ UNCHANGED <<allStrategies, allPersonas, selectionVars, cycleVars, classifierVars,
                   defenseVars>>

\* the learning loop: every cycle's emails against every inbox content.  The
\* ledger file is not writable here, so the state is the ledger in memory; the
\* saves that succeed are explored by SpecPersist
LearnFromCycle ==
    \E n \in 1..Min(Min(MAX_TARGETS_PER_CYCLE, Len(allPersonas)),
                     MaxLearned - learnedCount) :
      \E emailsGenerated \in CycleEmails(n), inboxView \in InboxViews(n) :
        /\ LearnFromCycleWith(emailsGenerated, ReadableInbox(inboxView), "writeFails")
        /\ UNCHANGED <<systemVars, analysisVars, runVars, metricsVars, eventVars>>

NextLearn == LearnFromCycle

SpecLearn == InitLearn /\ [][NextLearn]_vars

----------------------------------------------------------------------------
(* Learning, saving and reloading: the ledger file under every answer of the disk *)

PersistPersonas == <<1>>

\* the inbox file as these cycles find it: the email delivered and clicked, the
\* email blocked, or the file unreadable
PersistInboxes ==
    {ReadableInbox([id \in {1} |-> [status |-> "delivered", clicked |-> TRUE]]),
     ReadableInbox([id \in {1} |-> [status |-> "blocked", clicked |-> FALSE]]),
     UnreadableInbox}

InitPersist ==
    /\ allStrategies = LearnStrategies
    /\ allPersonas = PersistPersonas
    /\ strategyScores = SeedStrategies(EmptyMap)
    /\ personaVulnerabilities = SeedPersonas(EmptyMap)
    /\ combinations = EmptyMap
    /\ learnedCount = 0
    /\ seenStrategy = [s \in Strategies |-> 0]
    /\ seenPersona = [p \in PersonaIds |-> 0]
    /\ seenCombination = [k \in Strategies \X PersonaIds |-> 0]
    /\ NothingSelected
    /\ explorationRate = defaultExplorationRate
    /\ ClassifierIdle
    /\ DefenseIdle
    /\ NothingSaved
    /\ SystemIdle
    /\ AnalysisIdle
    /\ RunIdle
    /\ MetricsIdle
    /\ EventsIdle

\* learnFromCycle on a one-email cycle, the disk answering the save in every way
LearnAndSave ==
    /\ learnedCount < MaxSaves
    /\ \E emailsGenerated \in CycleEmails(1), inboxFile \in PersistInboxes,
          disk \in DiskOutcomes :
         /\ LearnFromCycleWith(emailsGenerated, inboxFile, disk)
         /\ UNCHANGED <<systemVars, analysisVars, runVars, metricsVars, eventVars>>

\* new StrategyTrainer(allStrategies, allPersonas): the agent process starts again
RestartTrainer ==
    /\ \E loaded \in {loadLearnedPatterns(learnedFile)} :
         /\ strategyScores' = SeedStrategies(loaded.ss)
         /\ personaVulnerabilities' = SeedPersonas(loaded.pv)
         /\ combinations' = loaded.cb
    /\ explorationRate' = defaultExplorationRate
    /\ inboxRead' = "none"
    /\ saved' = "none"
    /\ UNCHANGED <<allStrategies, allPersonas, historyVars, count, selectedTargets, targetsBy,
                   bestStrategy, strategyBy, cycleVars, learnedFile, learnedBackup,
                   classifierVars, defenseVars, systemVars, analysisVars, runVars, metricsVars, eventVars>>

NextPersist == LearnAndSave \/ RestartTrainer

SpecPersist == InitPersist /\ [][NextPersist]_vars

\* an entry a former run learned
LearnedStrategyEntry ==
    [attempts |-> 4, successes |-> 2, bypassRate |-> 50 * RateScale,
     clickRate |-> 50 * RateScale, score |-> 50 * ScoreScale]
LearnedPersonaEntry ==
    [attempts |-> 4, successes |-> 2, bypassRate |-> 50 * RateScale,
     clickRate |-> 50 * RateScale, vulnerabilityScore |-> 50 * ScoreScale]
LearnedCombinationEntry ==
    [attempts |-> 4, successes |-> 2, bypassRate |-> 50 * RateScale,
     clickRate |-> 50 * RateScale]

\* the learned-strategies file a starting agent may find: none; one a failed
\* write truncated; one the reset script emptied; one holding some of the known
\* keys; one holding a key no strategy of this run has
StartupFiles ==
    {NoFile, TruncatedFile,
     LearnedDocument([ss |-> EmptyMap, pv |-> EmptyMap, cb |-> EmptyMap],
                     defaultExplorationRate),
     LearnedDocument([ss |-> [s \in {2} |-> LearnedStrategyEntry],
                      pv |-> [q \in {1} |-> LearnedPersonaEntry],
                      cb |-> [k \in {<<2, 1>>} |-> LearnedCombinationEntry]],
                     defaultExplorationRate),
     LearnedDocument([ss |-> [s \in {9} |-> LearnedStrategyEntry],
                      pv |-> [q \in {2} |-> LearnedPersonaEntry],
                      cb |-> EmptyMap],
                     defaultExplorationRate)}

StartupStrategies == <<1, 2, 3>>

\* new StrategyTrainer(allStrategies, allPersonas) on the file found
InitStartup ==
    /\ learnedFile \in StartupFiles
    /\ learnedBackup = NoFile
    /\ inboxRead = "none"
    /\ saved = "none"
    /\ allStrategies = StartupStrategies
    /\ allPersonas = PersistPersonas
    /\ strategyScores = SeedStrategies(loadLearnedPatterns(learnedFile).ss)
    /\ personaVulnerabilities = SeedPersonas(loadLearnedPatterns(learnedFile).pv)
    /\ combinations = loadLearnedPatterns(learnedFile).cb
    /\ learnedCount = 0
    /\ seenStrategy = [s \in Strategies |-> 0]
    /\ seenPersona = [p \in PersonaIds |-> 0]
    /\ seenCombination = [k \in Strategies \X PersonaIds |-> 0]
    /\ NothingSelected
    /\ explorationRate = defaultExplorationRate
    /\ ClassifierIdle
    /\ DefenseIdle
    /\ SystemIdle
    /\ AnalysisIdle
    /\ RunIdle
    /\ MetricsIdle
    /\ EventsIdle

SpecStartup == InitStartup /\ [][NextPersist]_vars

----------------------------------------------------------------------------
(* Selection: selectBestStrategy and the two copies of selectBestTargets *)

\* position of x in the sequence q (its elements are distinct)
IndexOf(q, x) == CHOOSE i \in 1..Len(q) : q[i] = x

\* Array.prototype.sort with comparator (a, b) => key[b] - key[a]: descending
\* and stable, as an insertion of each element behind its equals
RECURSIVE InsertDescending(_, _, _)
InsertDescending(sorted, x, key) ==
    IF sorted = <<>> THEN <<x>>
    ELSE IF key[Head(sorted)] >= key[x]
         THEN <<Head(sorted)>> \o InsertDescending(Tail(sorted), x, key)
         ELSE <<x>> \o sorted

RECURSIVE SortDescending(_, _)
SortDescending(q, key) ==
    IF q = <<>> THEN <<>>
    ELSE InsertDescending(SortDescending(SubSeq(q, 1, Len(q) - 1), key), q[Len(q)], key)

\* personaData?.attempts || 0 and personaData?.vulnerabilityScore || 0
personaAttempts(pv, p) == IF p \in DOMAIN pv THEN pv[p].attempts ELSE 0
personaScore(pv, p) == IF p \in DOMAIN pv THEN pv[p].vulnerabilityScore ELSE 0

\* explorationBonus with the bonus for unexplored personas halved
explorationBonus_Halved(attempts) ==
    IF attempts < minAttemptsForLearning
    THEN (minAttemptsForLearning - attempts) * 10
    ELSE IF attempts < minAttemptsForLearning * 2
         THEN (minAttemptsForLearning * 2 - attempts) * 10
         ELSE 0

explorationBonus(attempts) ==
    IF attempts < minAttemptsForLearning
    THEN (minAttemptsForLearning - attempts) * 20
    ELSE IF attempts < minAttemptsForLearning * 2
         THEN (minAttemptsForLearning * 2 - attempts) * 10
         ELSE 0

\* finalScore without the confidence weight on vulnerabilityScore
finalScore_Unweighted(pv, p) ==
    personaScore(pv, p) * minAttemptsForLearning
    + explorationBonus(personaAttempts(pv, p)) * minAttemptsForLearning * ScoreScale

\* finalScore = vulnerabilityScore * min(attempts / minAttempts, 1) + bonus,
\* held as finalScore * minAttemptsForLearning * ScoreScale
finalScore(pv, p) ==
    personaScore(pv, p) * Min(personaAttempts(pv, p), minAttemptsForLearning)
    + explorationBonus(personaAttempts(pv, p)) * minAttemptsForLearning * ScoreScale

\* first copy: sort by finalScore, slice(0, count)
selectBestTargets(personas, pv, n) ==
    LET sorted == SortDescending(personas, [p \in SeqToSet(personas) |-> finalScore(pv, p)])
    IN  SubSeq(sorted, 1, Min(n, Len(sorted)))

\* the sequences of k distinct elements of the set S, in every order
RECURSIVE Picks(_, _)
Picks(S, k) ==
    IF k = 0 \/ S = {} THEN {<<>>}
    ELSE UNION {{<<x>> \o rest : rest \in Picks(S \ {x}, k - 1)} : x \in S}

\* second copy: sort by vulnerabilityScore, take count - explorationCount from
\* the top, then explorationCount random picks from the rest; the set of results
selectBestTargetsSecond(personas, pv, rate, n) ==
    LET sorted == SortDescending(personas, [p \in SeqToSet(personas) |-> personaScore(pv, p)])
        explorationCount == Max(1, (n * rate) \div 100)
        exploitationCount == n - explorationCount
        top == SubSeq(sorted, 1, Min(Max(exploitationCount, 0), Len(sorted)))
        remaining == SeqToSet(sorted) \ SeqToSet(top)
    IN  {top \o picked : picked \in Picks(remaining, explorationCount)}

\* adjustedScore without the confidence weight
adjustedScore_Unweighted(entry) == entry.score * minAttemptsForLearning

\* score * min(attempts / minAttempts, 1), held as that * minAttemptsForLearning
adjustedScore(entry) == entry.score * Min(entry.attempts, minAttemptsForLearning)

\* the default score 20 given to a strategy without an entry, in the same unit
DefaultAdjusted == 20 * ScoreScale * minAttemptsForLearning

\* one forEach step of selectBestStrategy with >= for >
ScanStrategy_NonStrict(best, strategy, ss) ==
    IF strategy \in DOMAIN ss
    THEN IF adjustedScore(ss[strategy]) >= best.bestScore
         THEN [bestStrategy |-> strategy, bestScore |-> adjustedScore(ss[strategy])]
         ELSE best
    ELSE IF best.bestScore < 0
         THEN [bestStrategy |-> strategy, bestScore |-> DefaultAdjusted]
         ELSE best

\* one forEach step of selectBestStrategy
ScanStrategy(best, strategy, ss) ==
    IF strategy \in DOMAIN ss
    THEN IF adjustedScore(ss[strategy]) > best.bestScore
         THEN [bestStrategy |-> strategy, bestScore |-> adjustedScore(ss[strategy])]
         ELSE best
    ELSE IF best.bestScore < 0
         THEN [bestStrategy |-> strategy, bestScore |-> DefaultAdjusted]
         ELSE best

RECURSIVE ScanStrategies(_, _, _)
ScanStrategies(best, strategies, ss) ==
    IF strategies = <<>> THEN best
    ELSE ScanStrategies(ScanStrategy(best, Head(strategies), ss), Tail(strategies), ss)

\* the exploitation branch: bestStrategy || allStrategies[0]
selectBestStrategy(strategies, ss) ==
    LET best == ScanStrategies([bestStrategy |-> NoStrategy, bestScore |-> -1], strategies, ss)
    IN  IF best.bestStrategy # NoStrategy THEN best.bestStrategy ELSE strategies[1]

\* the guard of getBestStrategyForPersona without the attempts threshold
comboQualifies_AnyAttempts(cb, strategy, personaId) ==
    <<strategy, personaId>> \in DOMAIN cb

\* comboData && comboData.attempts >= this.minAttemptsForLearning
comboQualifies(cb, strategy, personaId) ==
    /\ <<strategy, personaId>> \in DOMAIN cb
    /\ cb[<<strategy, personaId>>].attempts >= minAttemptsForLearning

\* one forEach step of getBestStrategyForPersona
ScanCombination(best, strategy, personaId, cb) ==
    IF comboQualifies(cb, strategy, personaId)
    THEN LET comboData == cb[<<strategy, personaId>>]
             score == calculateSuccessScore(comboData.bypassRate, comboData.clickRate)
         IN  IF score > best.bestScore
             THEN [bestStrategy |-> strategy, bestScore |-> score]
             ELSE best
    ELSE best

RECURSIVE ScanCombinations(_, _, _, _)
ScanCombinations(best, strategies, personaId, cb) ==
    IF strategies = <<>> THEN best
    ELSE ScanCombinations(ScanCombination(best, Head(strategies), personaId, cb),
                          Tail(strategies), personaId, cb)

\* getBestStrategyForPersona with bestScore starting at 0: a qualifying
\* combination of score 0 is never taken
getBestStrategyForPersona_ZeroFloor(strategies, personaId, cb, ss, rate) ==
    LET best == ScanCombinations([bestStrategy |-> NoStrategy, bestScore |-> 0],
                                 strategies, personaId, cb)
    IN  IF best.bestStrategy # NoStrategy
        THEN {[strategy |-> best.bestStrategy, by |-> "combination"]}
        ELSE (IF rate > 0
              THEN {[strategy |-> s, by |-> "exploration"] : s \in SeqToSet(strategies)}
              ELSE {})
             \cup
             (IF rate < 100
              THEN {[strategy |-> selectBestStrategy(strategies, ss), by |-> "exploitation"]}
              ELSE {})

\* getBestStrategyForPersona(personaId): the strategies it can return, each with
\* the branch that produced it; bestStrategy || this.selectBestStrategy()
getBestStrategyForPersona(strategies, personaId, cb, ss, rate) ==
    LET best == ScanCombinations([bestStrategy |-> NoStrategy, bestScore |-> -1],
                                 strategies, personaId, cb)
    IN  IF best.bestStrategy # NoStrategy
        THEN {[strategy |-> best.bestStrategy, by |-> "combination"]}
        ELSE (IF rate > 0
              THEN {[strategy |-> s, by |-> "exploration"] : s \in SeqToSet(strategies)}
              ELSE {})
             \cup
             (IF rate < 100
              THEN {[strategy |-> selectBestStrategy(strategies, ss), by |-> "exploitation"]}
              ELSE {})

\* the map without the substitution of a used strategy
variedStrategy_Keeps(strategy, used, strategies, targets) == {strategy}

\* executeAttackCycle, inside targetStrategies = selectedTargets.map(...): a strategy
\* already used in the cycle is replaced by a random unused one, if there is one
\* and more than one target was selected
variedStrategy(strategy, used, strategies, targets) ==
    LET availableStrategies == SeqToSet(strategies) \ used
    IN  IF strategy \in used /\ Len(targets) > 1 /\ availableStrategies # {}
        THEN availableStrategies
        ELSE {strategy}

----------------------------------------------------------------------------
(* Target selection over loaded persona ledgers *)

HistoryIdle ==
    /\ learnedCount = 0
    /\ seenStrategy = [s \in Strategies |-> 0]
    /\ seenPersona = [p \in PersonaIds |-> 0]
    /\ seenCombination = [k \in Strategies \X PersonaIds |-> 0]

AllStrategies == <<1, 2, 3>>
TargetPersonas == <<1, 2, 3>>

\* the persona entries a learned-strategies file is drawn from; the selectors
\* read attempts and vulnerabilityScore only
TargetAttempts == {0, 1, 3, 4, 6}
TargetScores == {20, 30, 40, 100}

LoadedPersonaEntry(a, v) ==
    [attempts |-> a, successes |-> 0, bypassRate |-> v * RateScale,
     clickRate |-> v * RateScale, vulnerabilityScore |-> v * ScoreScale]

LoadedPersonaEntries == {LoadedPersonaEntry(a, v) : a \in TargetAttempts, v \in TargetScores}

InitTargets ==
    /\ allStrategies = AllStrategies
    /\ allPersonas = TargetPersonas
    /\ strategyScores = SeedStrategies(EmptyMap)
    /\ personaVulnerabilities \in
         {SeedPersonas(loaded) : loaded \in [SeqToSet(TargetPersonas) -> LoadedPersonaEntries]}
    /\ combinations = EmptyMap
    /\ HistoryIdle
    /\ NothingSelected
    /\ explorationRate = defaultExplorationRate
    /\ ClassifierIdle
    /\ DefenseIdle
    /\ NothingSaved
    /\ SystemIdle
    /\ AnalysisIdle
    /\ RunIdle
    /\ MetricsIdle
    /\ EventsIdle

\* selectBestTargets(count), first copy
SelectBestTargets ==
    /\ targetsBy = "none"
    /\ \E n \in 0..MaxCount :
         /\ count' = n
         /\ selectedTargets' = selectBestTargets(allPersonas, personaVulnerabilities, n)
    /\ targetsBy' = "first"
    /\ UNCHANGED <<trainerVars, historyVars, cycleVars, persistVars, systemVars, analysisVars, runVars, metricsVars, eventVars, explorationRate, bestStrategy, strategyBy,
                   classifierVars, defenseVars>>

\* selectBestTargets(count), second copy
SelectBestTargetsSecond ==
    /\ targetsBy = "none"
    /\ \E n \in 0..MaxCount :
         /\ count' = n
         /\ selectedTargets' \in
              selectBestTargetsSecond(allPersonas, personaVulnerabilities, explorationRate, n)
    /\ targetsBy' = "second"
    /\ UNCHANGED <<trainerVars, historyVars, cycleVars, persistVars, systemVars, analysisVars, runVars, metricsVars, eventVars, explorationRate, bestStrategy, strategyBy,
                   classifierVars, defenseVars>>

NextTargets == SelectBestTargets \/ SelectBestTargetsSecond

SpecTargets == InitTargets /\ [][NextTargets]_vars

----------------------------------------------------------------------------
(* Strategy selection over loaded strategy ledgers *)

\* the enumeration orders of two or of all three strategies
StrategyLists ==
    {q \in UNION {[1..n -> SeqToSet(AllStrategies)] : n \in 2..3} :
        \A i, j \in 1..Len(q) : i # j => q[i] # q[j]}

StrategyAttempts == {0, 1, 3, 10}
StrategyRates == {0, 30}

\* an entry as initializeDefaultScores shapes it (attempts 0, score = bypassRate)
\* or as learnFromCycle leaves it (score = calculateSuccessScore)
LoadedStrategyEntry(a, b, c) ==
    [attempts |-> a, successes |-> 0, bypassRate |-> b * RateScale, clickRate |-> c * RateScale,
     score |-> IF a = 0 THEN b * ScoreScale
               ELSE calculateSuccessScore(b * RateScale, c * RateScale)]

LoadedStrategyEntries ==
    {LoadedStrategyEntry(0, b, 0) : b \in StrategyRates}
    \cup {LoadedStrategyEntry(a, b, c) :
            a \in StrategyAttempts \ {0}, b \in StrategyRates, c \in StrategyRates}

InitStrategy ==
    /\ allStrategies \in StrategyLists
    /\ allPersonas = TargetPersonas
    /\ strategyScores \in
         {SeedStrategies(loaded) : loaded \in [Strategies -> LoadedStrategyEntries]}
    /\ personaVulnerabilities = SeedPersonas(EmptyMap)
    /\ combinations = EmptyMap
    /\ HistoryIdle
    /\ NothingSelected
    /\ explorationRate \in {0, defaultExplorationRate}
    /\ ClassifierIdle
    /\ DefenseIdle
    /\ NothingSaved
    /\ SystemIdle
    /\ AnalysisIdle
    /\ RunIdle
    /\ MetricsIdle
    /\ EventsIdle

\* selectBestStrategy() when Math.random() < explorationRate
SelectRandomStrategy ==
    /\ strategyBy = "none"
    /\ explorationRate > 0
    /\ bestStrategy' \in Strategies
    /\ strategyBy' = "exploration"
    /\ UNCHANGED <<trainerVars, historyVars, cycleVars, persistVars, systemVars, analysisVars, runVars, metricsVars, eventVars, explorationRate, count, selectedTargets, targetsBy,
                   classifierVars, defenseVars>>

\* selectBestStrategy() otherwise
SelectBestStrategy ==
    /\ strategyBy = "none"
    /\ explorationRate < 100
    /\ bestStrategy' = selectBestStrategy(allStrategies, strategyScores)
    /\ strategyBy' = "exploitation"
    /\ UNCHANGED <<trainerVars, historyVars, cycleVars, persistVars, systemVars, analysisVars, runVars, metricsVars, eventVars, explorationRate, count, selectedTargets, targetsBy,
                   classifierVars, defenseVars>>

NextStrategy == SelectRandomStrategy \/ SelectBestStrategy

SpecStrategy == InitStrategy /\ [][NextStrategy]_vars

----------------------------------------------------------------------------
(* The attack cycle's choice of targets and strategies, over loaded combination ledgers *)

CycleStrategyLists == {<<1, 2, 3>>, <<3, 2, 1>>, <<1, 2>>, <<2, 1>>}
CyclePersonaLists == {<<1>>, <<1, 2>>, <<1, 2, 3>>}

\* the personas that have combination entries in the loaded file
CyclePersonas == {1, 2}

\* combination entries a learned-strategies file is drawn from: one below the
\* attempts threshold, two at or above it with different weighted scores
LoadedCombinationEntries ==
    {[attempts |-> 2, successes |-> 2, bypassRate |-> 100 * RateScale, clickRate |-> 100 * RateScale],
     [attempts |-> 3, successes |-> 1, bypassRate |-> 30 * RateScale, clickRate |-> 0],
     [attempts |-> 5, successes |-> 1, bypassRate |-> 20 * RateScale, clickRate |-> 100 * RateScale]}

InitCycle ==
    /\ allStrategies \in CycleStrategyLists
    /\ allPersonas \in CyclePersonaLists
    /\ strategyScores = SeedStrategies(EmptyMap)
    /\ personaVulnerabilities = SeedPersonas(EmptyMap)
    /\ combinations \in
         UNION {[keys -> LoadedCombinationEntries] :
                   keys \in SUBSET (Strategies \X (PersonaIds \cap CyclePersonas))}
    /\ HistoryIdle
    /\ NothingSelected
    /\ explorationRate = defaultExplorationRate
    /\ ClassifierIdle
    /\ DefenseIdle
    /\ NothingSaved
    /\ SystemIdle
    /\ AnalysisIdle
    /\ RunIdle
    /\ MetricsIdle
    /\ EventsIdle

\* executeAttackCycle up to the choice of targets
StartAttackCycle ==
    /\ targetsBy = "none"
    /\ count' = MAX_TARGETS_PER_CYCLE
    /\ selectedTargets' =
         selectBestTargets(allPersonas, personaVulnerabilities, MAX_TARGETS_PER_CYCLE)
    /\ targetsBy' = "first"
    /\ usedStrategies' = {}
    /\ targetStrategies' = <<>>
    /\ UNCHANGED <<trainerVars, historyVars, persistVars, systemVars, analysisVars, runVars, metricsVars, eventVars, explorationRate, bestStrategy,
                   strategyBy, classifierVars, defenseVars>>

\* one turn of selectedTargets.map(...): the strategy of the next target
AssignStrategy ==
    /\ targetsBy = "first"
    /\ Len(targetStrategies) < Len(selectedTargets)
    /\ LET persona == selectedTargets[Len(targetStrategies) + 1] IN
       \E chosen \in getBestStrategyForPersona(allStrategies, persona, combinations,
                                               strategyScores, explorationRate) :
         \E strategy \in variedStrategy(chosen.strategy, usedStrategies,
                                        allStrategies, selectedTargets) :
           /\ bestStrategy' = chosen.strategy
           /\ strategyBy' = chosen.by
           /\ usedStrategies' = usedStrategies \cup {strategy}
           /\ targetStrategies' =
                Append(targetStrategies, [persona |-> persona, strategy |-> strategy])
    /\ UNCHANGED <<trainerVars, historyVars, persistVars, systemVars, analysisVars, runVars, metricsVars, eventVars, explorationRate, count,
                   selectedTargets, targetsBy, classifierVars, defenseVars>>

NextCycle == StartAttackCycle \/ AssignStrategy

SpecCycle == InitCycle /\ [][NextCycle]_vars

\* executeAttackCycle on one target, up to its sleep: the strategy
\* getBestStrategyForPersona returns for the target, and the email generated
\* with it
ChooseStrategyWithin(cycles) ==
    /\ generatedEmails = <<>>
    /\ learnedCount < cycles
    /\ \E persona \in PersonaIds :
         \E chosen \in getBestStrategyForPersona(allStrategies, persona, combinations,
                                                 strategyScores, explorationRate) :
           /\ count' = 1
           /\ selectedTargets' = <<persona>>
           /\ targetsBy' = "first"
           /\ bestStrategy' = chosen.strategy
           /\ strategyBy' = chosen.by
           /\ generatedEmails' =
                <<[id |-> 1, strategy |-> chosen.strategy, persona |-> persona]>>
    /\ UNCHANGED <<trainerVars, historyVars, explorationRate, classifierVars, defenseVars,
                   cycleVars, persistVars, clickFlows, clickWrites, analysisVars, runVars, metricsVars, eventVars>>

\* executeAttackCycle after its sleep: learnFromCycle on that email and what the
\* inbox holds of it
LearnChosen ==
    /\ generatedEmails # <<>>
    /\ \E inboxView \in InboxViews(1) :
         LearnFromCycleWith(generatedEmails, ReadableInbox(inboxView), "writeFails")
    /\ generatedEmails' = <<>>
    /\ UNCHANGED <<clickFlows, clickWrites, analysisVars, runVars, metricsVars, eventVars>>

ChooseStrategy == ChooseStrategyWithin(MaxLearned)

NextAdapt == ChooseStrategy \/ LearnChosen

SpecAdapt == InitLearn /\ [][NextAdapt]_vars

\* the same cycles, fewer of them: the trainer set beside one seeded otherwise
ChooseStrategyEarly == ChooseStrategyWithin(MaxSeeded)

NextSeeded == ChooseStrategyEarly \/ LearnChosen

SpecSeeded == InitLearn /\ [][NextSeeded]_vars

----------------------------------------------------------------------------
(* Classification of feature sets *)

\* the trainer as constructed without a learned-strategies file
TrainerFresh ==
    /\ allStrategies = AllStrategies
    /\ allPersonas = TargetPersonas
    /\ strategyScores = SeedStrategies(EmptyMap)
    /\ personaVulnerabilities = SeedPersonas(EmptyMap)
    /\ combinations = EmptyMap
    /\ explorationRate = defaultExplorationRate

\* feature sets on both sides of every threshold the tree tests
FeatureSets ==
    [hasUrls : BOOLEAN,
     urlAuthenticityScore : {29, 30, 59, 60},
     hasSuspiciousUrls : BOOLEAN,
     urlDomainMismatch : BOOLEAN,
     credentialKeywords : {0, 1, 2},
     urgencyKeywords : {0, 2},
     securityKeywords : {0, 1},
     financialKeywords : {0, 1},
     totalSuspicionScore : {19, 20},
     totalUrgencyScore : {14, 15},
     senderAuthenticityScore : {39, 40, 60},
     professionalismScore : {59, 60, 70},
     grammarScore : {49, 59, 60}]

InitClassify ==
    /\ TrainerFresh
    /\ HistoryIdle
    /\ NothingSelected
    /\ features \in FeatureSets
    /\ classification = NoClassification
    /\ DefenseIdle
    /\ NothingSaved
    /\ SystemIdle
    /\ AnalysisIdle
    /\ RunIdle
    /\ MetricsIdle
    /\ EventsIdle

Classify ==
    /\ classification = NoClassification
    /\ classification' = classify(features)
    /\ UNCHANGED <<trainerVars, historyVars, selectionVars, cycleVars, persistVars, systemVars, analysisVars, runVars, metricsVars, eventVars, features, defenseVars>>

NextClassify == Classify

SpecClassify == InitClassify /\ [][NextClassify]_vars

----------------------------------------------------------------------------
(* The inbox, the deployments into it and the defense cycle *)

Url(domain, shortener, ip, http) ==
    [domain |-> domain, shortener |-> shortener, ip |-> ip, http |-> http]

\* the emails that get deployed: a phishing email with keywords and an http link,
\* a keyword-only email of an external sender, a notice of the bank itself, a bare
\* http link through a shortener to a raw IP address, and a record whose subject is
\* no string
EmailContents ==
    [phish   |-> [wellFormed |-> TRUE, senderDomain |-> "secure-alerts.com", noreply |-> FALSE,
                  urls |-> <<Url("secure-alerts.com", FALSE, FALSE, TRUE)>>,
                  urgencyCount |-> 2, credentialCount |-> 2, securityCount |-> 0],
     nudge   |-> [wellFormed |-> TRUE, senderDomain |-> "secure-alerts.com", noreply |-> FALSE,
                  urls |-> <<>>,
                  urgencyCount |-> 1, credentialCount |-> 1, securityCount |-> 0],
     notice  |-> [wellFormed |-> TRUE, senderDomain |-> "securebank.com", noreply |-> TRUE,
                  urls |-> <<>>,
                  urgencyCount |-> 0, credentialCount |-> 0, securityCount |-> 0],
     iplink  |-> [wellFormed |-> TRUE, senderDomain |-> "secure-alerts.com", noreply |-> FALSE,
                  urls |-> <<Url("203.0.113.7", TRUE, TRUE, TRUE)>>,
                  urgencyCount |-> 0, credentialCount |-> 0, securityCount |-> 0],
     lure    |-> [wellFormed |-> TRUE, senderDomain |-> "bank.com", noreply |-> FALSE,
                  urls |-> <<Url("evil.test", FALSE, FALSE, FALSE)>>,
                  urgencyCount |-> 0, credentialCount |-> 0, securityCount |-> 0],
     broken  |-> [wellFormed |-> FALSE, senderDomain |-> "", noreply |-> FALSE,
                  urls |-> <<>>,
                  urgencyCount |-> 0, credentialCount |-> 0, securityCount |-> 0]]

EmailKinds == DOMAIN EmailContents

\* an email as the attack agent generates it; it has no clicked field yet, which
\* every reader tests with === true
DeliveredEmail(id, kind) ==
    [id |-> id, kind |-> kind, status |-> "delivered", clicked |-> FALSE,
     mlClassification |-> NoClassification]

\* the click timers pending for an email id; clickFlows holds the ids that have any
FlowsOf(id) == IF id \in DOMAIN clickFlows THEN clickFlows[id] ELSE 0

\* simulateUserFlow(emailId, ...): one more flow that may reach its click timer
simulateUserFlow(emailId) == MapPut(clickFlows, emailId, FlowsOf(emailId) + 1)

\* the handler of POST /api/agent/deploy-emails on one email: read the file,
\* append, start the email's simulation flow, write the file
DeployEmailsOf(email) ==
    /\ inbox' = Append(inbox, email)
    /\ clickFlows' = simulateUserFlow(email.id)

\* the filter of the cycle: delivered and not analysed before
IsNewEmail(email) ==
    /\ email.status = "delivered"
    /\ email.id \notin processedEmailIds

\* emails.filter(...): the positions of the new emails, in inbox order
RECURSIVE NewEmailsFrom(_, _)
NewEmailsFrom(q, i) ==
    IF i > Len(q) THEN <<>>
    ELSE (IF IsNewEmail(q[i]) THEN <<i>> ELSE <<>>) \o NewEmailsFrom(q, i + 1)

Init ==
    /\ TrainerFresh
    /\ HistoryIdle
    /\ NothingSelected
    /\ ClassifierIdle
    /\ DefenseIdle
    /\ NothingSaved
    /\ SystemIdle
    /\ AnalysisIdle
    /\ RunIdle
    /\ MetricsIdle
    /\ EventsIdle

\* POST /api/agent/deploy-emails with one new email
DeployEmails ==
    /\ Len(inbox) < MaxInbox
    /\ FlowsOf(Len(inbox) + 1) < MaxFlows
    /\ \E kind \in EmailKinds : DeployEmailsOf(DeliveredEmail(Len(inbox) + 1, kind))
    /\ UNCHANGED <<trainerVars, historyVars, selectionVars, cycleVars, persistVars, classifierVars,
                   processedEmailIds, defensePhase, emails, newEmails, analysed,
                   generatedEmails, clickWrites, analysisVars, runVars, metricsVars, eventVars>>

\* executeDefenseCycle up to its first await: read the inbox, filter the new emails
StartDefenseCycle ==
    /\ defensePhase = "idle"
    /\ NewEmailsFrom(inbox, 1) # <<>>
    /\ emails' = inbox
    /\ newEmails' = NewEmailsFrom(inbox, 1)
    /\ analysed' = {}
    /\ defensePhase' = "analyzing"
    /\ UNCHANGED <<trainerVars, historyVars, selectionVars, cycleVars, persistVars, systemVars, analysisVars, runVars, metricsVars, eventVars, classifierVars,
                   inbox, processedEmailIds>>

\* one turn of the loop over newEmails, up to its sleep; an email classifyEmail
\* throws on is logged and left as it is
AnalyzeEmail ==
    /\ defensePhase = "analyzing"
    /\ newEmails # <<>>
    /\ LET i == Head(newEmails)
           email == emails[i]
           content == EmailContents[email.kind]
       IN  IF content.wellFormed
           THEN LET verdict == classifyEmail(content) IN
                /\ emails' = [emails EXCEPT ![i] =
                       [email EXCEPT
                           !.mlClassification = verdict,
                           !.status = statusAfterAnalysis(email.status, verdict.riskLevel)]]
                /\ processedEmailIds' = processedEmailIds \cup {email.id}
                /\ analysed' = analysed \cup {email.id}
           ELSE UNCHANGED <<emails, processedEmailIds, analysed>>
    /\ newEmails' = Tail(newEmails)
    /\ UNCHANGED <<trainerVars, historyVars, selectionVars, cycleVars, persistVars, systemVars, analysisVars, runVars, metricsVars, eventVars, classifierVars, inbox, defensePhase>>

\* a write-back that reads the file again and keeps what it finds there: the
\* emails appended and the clicks persisted since the cycle's read
SaveInbox_Merging ==
    /\ defensePhase = "analyzing"
    /\ newEmails = <<>>
    /\ inbox' \in {inbox,
                   [i \in DOMAIN inbox |->
                       IF i \in DOMAIN emails
                       THEN [emails[i] EXCEPT !.clicked = inbox[i].clicked]
                       ELSE inbox[i]]}
    /\ defensePhase' = "idle"
    /\ UNCHANGED <<trainerVars, historyVars, selectionVars, cycleVars, persistVars, systemVars,
                   analysisVars, runVars, metricsVars, eventVars, classifierVars, processedEmailIds, emails, newEmails,
                   analysed>>

\* after the loop: write the cycle's emails over the inbox file; a failing write
\* is logged and the cycle ends all the same
SaveInbox ==
    /\ defensePhase = "analyzing"
    /\ newEmails = <<>>
    /\ inbox' \in {emails, inbox}
    /\ defensePhase' = "idle"
    /\ UNCHANGED <<trainerVars, historyVars, selectionVars, cycleVars, persistVars, systemVars, analysisVars, runVars, metricsVars, eventVars, classifierVars,
                   processedEmailIds, emails, newEmails, analysed>>

Next == DeployEmails \/ StartDefenseCycle \/ AnalyzeEmail \/ SaveInbox

Spec == Init /\ [][Next]_vars

----------------------------------------------------------------------------
(* The attack agent, the server and the defense agent around the inbox file *)

SystemStrategies == {1}
SystemPersonas == {1}
SystemKinds == {"phish", "notice"}

\* emails.find(e => e.id === emailId): the first position holding the id, or 0
PositionOf(q, id) ==
    IF \E i \in DOMAIN q : q[i].id = id
    THEN CHOOSE i \in DOMAIN q : q[i].id = id /\ \A j \in 1..(i - 1) : q[j].id # id
    ELSE 0

\* emailMap of getEmailStatuses: the emails of the file by id, the last one winning
InboxById(q) ==
    [id \in {q[i].id : i \in DOMAIN q} |->
        q[CHOOSE i \in DOMAIN q : q[i].id = id /\ \A j \in (i + 1)..Len(q) : q[j].id # id]]

ClickWritesOf(id) == IF id \in DOMAIN clickWrites THEN clickWrites[id] ELSE 0

\* the bodies POST /api/defense/sync receives: the browser's copy of the inbox,
\* each email as the file holds it or as it was when it was delivered
StaleCopies(q) ==
    {body \in [DOMAIN q -> {q[i] : i \in DOMAIN q}
                              \cup {DeliveredEmail(q[i].id, q[i].kind) : i \in DOMAIN q}] :
        \A i \in DOMAIN q : body[i] \in {q[i], DeliveredEmail(q[i].id, q[i].kind)}}

InitSystem ==
    /\ TrainerFresh
    /\ HistoryIdle
    /\ NothingSelected
    /\ ClassifierIdle
    /\ DefenseIdle
    /\ NothingSaved
    /\ SystemIdle
    /\ AnalysisIdle
    /\ RunIdle
    /\ MetricsIdle
    /\ EventsIdle

\* executeAttackCycle up to its sleep: generate the cycle's email and post it to
\* the server; a deployment that fails is logged and the cycle goes on
ExecuteAttackCycle ==
    /\ generatedEmails = <<>>
    /\ learnedCount < MaxCycles
    /\ \E strategy \in SystemStrategies, persona \in SystemPersonas, kind \in SystemKinds :
         LET id == learnedCount + 1 IN
         /\ generatedEmails' = <<[id |-> id, strategy |-> strategy, persona |-> persona]>>
         /\ \/ DeployEmailsOf(DeliveredEmail(id, kind))
            \/ UNCHANGED <<inbox, clickFlows>>
    /\ UNCHANGED <<trainerVars, historyVars, selectionVars, cycleVars, persistVars, classifierVars,
                   processedEmailIds, defensePhase, emails, newEmails, analysed, clickWrites, analysisVars, runVars, metricsVars, eventVars>>

\* a learn call that leaves the cycle's emails in place, to be learned again
LearnFromInbox_KeepsEmails ==
    /\ generatedEmails # <<>>
    /\ LearnFromCycleWith(generatedEmails, ReadableInbox(InboxById(inbox)), "ok")
    /\ UNCHANGED <<systemVars, analysisVars, runVars, metricsVars, eventVars>>

\* executeAttackCycle after its sleep: learnFromCycle on the emails of the cycle
\* and the inbox file as it is now
LearnFromInbox ==
    /\ generatedEmails # <<>>
    /\ LearnFromCycleWith(generatedEmails, ReadableInbox(InboxById(inbox)), "ok")
    /\ generatedEmails' = <<>>
    /\ UNCHANGED <<clickFlows, clickWrites, analysisVars, runVars, metricsVars, eventVars>>

\* POST /events/generated: start a simulation flow for the email id of the body
EventsGenerated ==
    /\ \E emailId \in 1..MaxCycles :
         /\ FlowsOf(emailId) + ClickWritesOf(emailId) < MaxFlows
         /\ clickFlows' = simulateUserFlow(emailId)
    /\ UNCHANGED <<trainerVars, historyVars, selectionVars, cycleVars, persistVars, classifierVars,
                   defenseVars, generatedEmails, clickWrites, analysisVars, runVars, metricsVars, eventVars>>

\* the click timer of a simulation flow: nothing if the file shows the email
\* blocked or reported; else read the file again, set clicked, write the file
PersistClick ==
    /\ \E emailId \in DOMAIN clickFlows :
         /\ clickFlows[emailId] > 0
         /\ clickFlows' = [id \in {k \in DOMAIN clickFlows : k # emailId \/ clickFlows[k] > 1} |->
                               IF id = emailId THEN clickFlows[id] - 1 ELSE clickFlows[id]]
         /\ LET i == PositionOf(inbox, emailId) IN
            IF i # 0 /\ inbox[i].status # "blocked" /\ inbox[i].status # "reported"
            THEN /\ inbox' = [inbox EXCEPT ![i].clicked = TRUE]
                 /\ clickWrites' = MapPut(clickWrites, emailId, ClickWritesOf(emailId) + 1)
            ELSE UNCHANGED <<inbox, clickWrites>>
    /\ UNCHANGED <<trainerVars, historyVars, selectionVars, cycleVars, persistVars, classifierVars,
                   processedEmailIds, defensePhase, emails, newEmails, analysed, generatedEmails, analysisVars, runVars, metricsVars, eventVars>>

\* POST /api/defense/sync: write the emails of the body over the inbox file
SyncInbox ==
    /\ \E body \in StaleCopies(inbox) :
         /\ body # inbox
         /\ inbox' = body
    /\ UNCHANGED <<trainerVars, historyVars, selectionVars, cycleVars, persistVars, classifierVars,
                   processedEmailIds, defensePhase, emails, newEmails, analysed, systemVars, analysisVars, runVars, metricsVars, eventVars>>

NextSystem ==
    \/ ExecuteAttackCycle
    \/ LearnFromInbox
    \/ EventsGenerated
    \/ PersistClick
    \/ SyncInbox
    \/ StartDefenseCycle
    \/ AnalyzeEmail
    \/ SaveInbox

SpecSystem == InitSystem /\ [][NextSystem]_vars

\* the attack agent's cycles beside the defense agent and the click timers of the
\* flows its deployments start, without the requests of a browser
NextLearnInbox ==
    \/ ExecuteAttackCycle
    \/ LearnFromInbox
    \/ PersistClick
    \/ StartDefenseCycle
    \/ AnalyzeEmail
    \/ SaveInbox

SpecLearnInbox == InitSystem /\ [][NextLearnInbox]_vars

----------------------------------------------------------------------------
(* URLAnalyzer and the analysers of DecisionTreeClassifier *)

\* A URL is what the two analysers read of it: its host as written and with a
\* leading www. removed, whether the suspicious patterns match it, whether the
\* defense agent's list of shorteners matches it and whether URLAnalyzer's longer
\* list does, whether it holds a dotted quad, whether it starts with http://
UrlOf(domain, bare, suspicious, shortener, longShortener, ip, http) ==
    [domain |-> domain, bare |-> bare, suspicious |-> suspicious, shortener |-> shortener,
     longShortener |-> longShortener, ip |-> ip, http |-> http]

\* https://bank.com/a, https://evil.test/login, https://secure-alerts.com/verify,
\* http://bit.ly/x, https://ow.ly/x, http://203.0.113.7/a, https://www.bank.com/a
UrlSamples ==
    {UrlOf("bank.com", "bank.com", FALSE, FALSE, FALSE, FALSE, FALSE),
     UrlOf("evil.test", "evil.test", FALSE, FALSE, FALSE, FALSE, FALSE),
     UrlOf("secure-alerts.com", "secure-alerts.com", TRUE, FALSE, FALSE, FALSE, FALSE),
     UrlOf("bit.ly", "bit.ly", FALSE, TRUE, TRUE, FALSE, TRUE),
     UrlOf("ow.ly", "ow.ly", FALSE, FALSE, TRUE, FALSE, FALSE),
     UrlOf("203.0.113.7", "203.0.113.7", FALSE, FALSE, FALSE, TRUE, TRUE),
     UrlOf("www.bank.com", "bank.com", FALSE, FALSE, FALSE, FALSE, FALSE)}

UrlLists == UNION {[1..n -> UrlSamples] : n \in 0..MaxUrls}

\* URLAnalyzer.analyzeAuthenticity without its final clamp
RECURSIVE analyzeAuthenticityFrom_Unclamped(_, _, _)
analyzeAuthenticityFrom_Unclamped(score, urls, senderDomain) ==
    IF urls = <<>> THEN score
    ELSE LET url == Head(urls) IN
         analyzeAuthenticityFrom_Unclamped(
             score - (IF senderDomain # "" /\ url.bare # "" /\ url.bare # senderDomain
                      THEN 30 ELSE 0)
                   - (IF url.suspicious THEN 25 ELSE 0)
                   - (IF url.longShortener THEN 20 ELSE 0)
                   - (IF url.ip THEN 35 ELSE 0)
                   - (IF url.http THEN 15 ELSE 0),
             Tail(urls), senderDomain)

\* the loop of URLAnalyzer.analyzeAuthenticity and its clamp; extractDomain drops
\* a leading www., extractDomainFromEmail gives null ("") without an @
RECURSIVE analyzeAuthenticityFrom(_, _, _)
analyzeAuthenticityFrom(score, urls, senderDomain) ==
    IF urls = <<>> THEN Max(0, Min(100, score))
    ELSE LET url == Head(urls) IN
         analyzeAuthenticityFrom(
             score - (IF senderDomain # "" /\ url.bare # "" /\ url.bare # senderDomain
                      THEN 30 ELSE 0)
                   - (IF url.suspicious THEN 25 ELSE 0)
                   - (IF url.longShortener THEN 20 ELSE 0)
                   - (IF url.ip THEN 35 ELSE 0)
                   - (IF url.http THEN 15 ELSE 0),
             Tail(urls), senderDomain)

analyzeAuthenticity_Unclamped(urls, senderDomain) ==
    IF Len(urls) = 0 THEN 100 ELSE analyzeAuthenticityFrom_Unclamped(100, urls, senderDomain)

analyzeAuthenticity(urls, senderDomain) ==
    IF Len(urls) = 0 THEN 100 ELSE analyzeAuthenticityFrom(100, urls, senderDomain)

hasSuspiciousPatterns(urls) == \E i \in DOMAIN urls : urls[i].suspicious

checkDomainMismatch(urls, senderDomain) ==
    /\ Len(urls) # 0
    /\ senderDomain # ""
    /\ \E i \in DOMAIN urls : urls[i].bare # "" /\ urls[i].bare # senderDomain

\* A text is the set of the keywords found in it, each once.  KeywordAnalyzer's
\* lists and the lists inside classifyEmail, cut down to the keywords of the texts
KeywordLists ==
    [urgency |-> {"urgent", "asap"},
     credential |-> {"password", "credentials", "account"},
     financial |-> {},
     security |-> {"suspicious activity"},
     threat |-> {},
     callToAction |-> {}]

InlineKeywordLists ==
    [urgency |-> {"urgent", "asap"},
     credential |-> {"password", "credentials"},
     security |-> {"suspicious activity"}]

\* countKeywords(subject + ' ' + content, keywords): every match counts
countKeywords(subject, content, keywords) ==
    Cardinality(subject \cap keywords) + Cardinality(content \cap keywords)

\* A sender is what the analysers read of senderEmail: whether there is one, its
\* domain, whether it holds noreply, whether hasSuspiciousPattern matches, what
\* analyzeDomainReputation gives its domain, whether it holds four digits in a row
SenderOf(present, domain, noreply, suspiciousPattern, reputation, digits) ==
    [present |-> present, domain |-> domain, noreply |-> noreply,
     suspiciousPattern |-> suspiciousPattern, reputation |-> reputation, digits |-> digits]

\* no senderEmail, it@bank.com, alerts@secure-alerts.com, noreply@securebank.com,
\* noreply1234@abc.io
SenderSamples ==
    {SenderOf(FALSE, "", FALSE, FALSE, 50, FALSE),
     SenderOf(TRUE, "bank.com", FALSE, FALSE, 90, FALSE),
     SenderOf(TRUE, "secure-alerts.com", FALSE, FALSE, 60, FALSE),
     SenderOf(TRUE, "securebank.com", TRUE, TRUE, 90, FALSE),
     SenderOf(TRUE, "abc.io", TRUE, TRUE, 30, TRUE)}

\* SenderAnalyzer.analyzeAuthenticity
analyzeSenderAuthenticity(sender) ==
    IF ~sender.present THEN 50
    ELSE Max(0, Min(100, 100 - (IF sender.suspiciousPattern THEN 30 ELSE 0)
                             + (sender.reputation - 50)
                             - (IF sender.noreply THEN 10 ELSE 0)
                             - (IF sender.digits THEN 15 ELSE 0)))

\* A style is what GrammarAnalyzer reads of the content: whether it has ten
\* characters, the grammar mistakes matched, the professional indicators found,
\* whether it has both a greeting and a closing
StyleSamples ==
    {[long |-> TRUE, mistakes |-> 0, indicators |-> 0, structured |-> FALSE],
     [long |-> TRUE, mistakes |-> 0, indicators |-> 4, structured |-> TRUE],
     [long |-> TRUE, mistakes |-> 4, indicators |-> 0, structured |-> FALSE]}

analyzeGrammar(style) ==
    IF ~style.long THEN 50 ELSE Max(0, Min(100, 100 - 15 * style.mistakes))

analyzeProfessionalism(style) ==
    Min(100, 50 + 5 * style.indicators + (IF style.structured THEN 20 ELSE 0))

\* the subjects "" and "urgent!!", and the keywords of the contents
SubjectSamples ==
    {[keywords |-> {}, excessivePunctuation |-> FALSE, letters |-> FALSE, length |-> 0],
     [keywords |-> {"urgent"}, excessivePunctuation |-> TRUE, letters |-> TRUE, length |-> 8]}

ContentSamples == SUBSET {"asap", "password", "credentials", "suspicious activity"}

\* the emails handed to the classifiers
GivenEmails ==
    [given : {TRUE}, subject : SubjectSamples, content : ContentSamples,
     style : StyleSamples, sender : SenderSamples, urls : UrlLists]

\* extractFeatures: the object literal it returns; the statements that would fill
\* totalUrgencyScore and totalSuspicionScore stand after the return
extractFeatures(e) ==
    [hasUrls |-> Len(e.urls) > 0,
     urlAuthenticityScore |-> analyzeAuthenticity(e.urls, e.sender.domain),
     hasSuspiciousUrls |-> hasSuspiciousPatterns(e.urls),
     urlDomainMismatch |-> checkDomainMismatch(e.urls, e.sender.domain),
     urgencyKeywords |-> countKeywords(e.subject.keywords, e.content, KeywordLists.urgency),
     credentialKeywords |->
         countKeywords(e.subject.keywords, e.content, KeywordLists.credential),
     financialKeywords |->
         countKeywords(e.subject.keywords, e.content, KeywordLists.financial),
     securityKeywords |-> countKeywords(e.subject.keywords, e.content, KeywordLists.security),
     threatKeywords |-> countKeywords(e.subject.keywords, e.content, KeywordLists.threat),
     callToActionKeywords |-> countKeywords({}, e.content, KeywordLists.callToAction),
     senderAuthenticityScore |-> analyzeSenderAuthenticity(e.sender),
     grammarScore |-> analyzeGrammar(e.style),
     professionalismScore |-> analyzeProfessionalism(e.style),
     hasExcessivePunctuation |-> e.subject.excessivePunctuation,
     subjectAllCaps |-> ~e.subject.letters /\ e.subject.length > 10,
     totalUrgencyScore |-> 0,
     totalSuspicionScore |-> 0]

\* what classifyEmail reads of the same email: the keywords of its own lists that
\* subject or content includes, the security ones in the content alone
inlineContent(e) ==
    [wellFormed |-> TRUE, senderDomain |-> e.sender.domain, noreply |-> e.sender.noreply,
     urls |-> e.urls,
     urgencyCount |->
         Cardinality((e.subject.keywords \cup e.content) \cap InlineKeywordLists.urgency),
     credentialCount |->
         Cardinality((e.subject.keywords \cup e.content) \cap InlineKeywordLists.credential),
     securityCount |-> Cardinality(e.content \cap InlineKeywordLists.security)]

InitAnalyse ==
    /\ TrainerFresh
    /\ HistoryIdle
    /\ NothingSelected
    /\ ClassifierIdle
    /\ DefenseIdle
    /\ NothingSaved
    /\ SystemIdle
    /\ RunIdle
    /\ MetricsIdle
    /\ EventsIdle
    /\ givenEmail \in GivenEmails
    /\ analysis = NoAnalysis

\* the email goes through URLAnalyzer, through DecisionTreeClassifier.classify and
\* through the defense agent's analyzeUrlAuthenticity and classifyEmail
AnalyseEmail ==
    /\ ~analysis.done
    /\ analysis' =
         [done |-> TRUE,
          urlAnalyzer |-> analyzeAuthenticity(givenEmail.urls, givenEmail.sender.domain),
          agentUrls |-> analyzeUrlAuthenticity(givenEmail.urls, givenEmail.sender.domain),
          features |-> extractFeatures(givenEmail),
          tree |-> classify(extractFeatures(givenEmail)),
          inline |-> classifyEmail(inlineContent(givenEmail))]
    /\ UNCHANGED <<trainerVars, historyVars, selectionVars, classifierVars, defenseVars,
                   cycleVars, persistVars, systemVars, runVars, metricsVars, eventVars,
                   givenEmail>>

SpecAnalyse == InitAnalyse /\ [][AnalyseEmail]_vars

\* the urgencyLevel of the strategy at position s of ATTACK_STRATEGIES
urgencyLevel(s) == <<"medium", "high", "critical">>[s]

\* what generatePhishingEmail gets: a strategy, and the subject and content of
\* emailData by the words calculateRiskScore looks for
GenerationData ==
    [given : {FALSE},
     strategy : DOMAIN ATTACK_STRATEGIES,
     subject : SUBSET {"urgent", "critical"},
     content : SUBSET {"credentials", "password", "immediately", "asap"}]

\* calculateRiskScore without Math.min
calculateRiskScore_Unclamped(emailData, strategy) ==
    30
    + (IF attackLevel(strategy) = "expert" THEN 30
       ELSE IF attackLevel(strategy) = "advanced" THEN 20
       ELSE IF attackLevel(strategy) = "basic" THEN 10 ELSE 0)
    + (IF urgencyLevel(strategy) = "critical" THEN 25
       ELSE IF urgencyLevel(strategy) = "high" THEN 15
       ELSE IF urgencyLevel(strategy) = "medium" THEN 10 ELSE 0)
    + (IF emailData.subject \cap {"urgent", "critical"} # {} THEN 10 ELSE 0)
    + (IF emailData.content \cap {"credentials", "password"} # {} THEN 15 ELSE 0)
    + (IF emailData.content \cap {"immediately", "asap"} # {} THEN 10 ELSE 0)

calculateRiskScore(emailData, strategy) ==
    Min(100,
        30
        + (IF attackLevel(strategy) = "expert" THEN 30
           ELSE IF attackLevel(strategy) = "advanced" THEN 20
           ELSE IF attackLevel(strategy) = "basic" THEN 10 ELSE 0)
        + (IF urgencyLevel(strategy) = "critical" THEN 25
           ELSE IF urgencyLevel(strategy) = "high" THEN 15
           ELSE IF urgencyLevel(strategy) = "medium" THEN 10 ELSE 0)
        + (IF emailData.subject \cap {"urgent", "critical"} # {} THEN 10 ELSE 0)
        + (IF emailData.content \cap {"credentials", "password"} # {} THEN 15 ELSE 0)
        + (IF emailData.content \cap {"immediately", "asap"} # {} THEN 10 ELSE 0))

\* the riskScore and riskLevel of the record generatePhishingEmail returns
generatePhishingEmail(emailData, strategy) ==
    LET riskScore == calculateRiskScore(emailData, strategy) IN
    [riskScore |-> riskScore,
     riskLevel |-> IF riskScore >= 70 THEN "high"
                   ELSE IF riskScore >= 40 THEN "medium" ELSE "low",
     status |-> "delivered"]

InitScores ==
    /\ TrainerFresh
    /\ HistoryIdle
    /\ NothingSelected
    /\ ClassifierIdle
    /\ DefenseIdle
    /\ NothingSaved
    /\ SystemIdle
    /\ RunIdle
    /\ MetricsIdle
    /\ EventsIdle
    /\ givenEmail \in GivenEmails \cup GenerationData
    /\ analysis = NoAnalysis

\* a received email goes through the classifiers
ClassifyGiven ==
    /\ givenEmail.given
    /\ AnalyseEmail

\* the offense agent builds the email record from emailData and the strategy
GeneratePhishingEmail ==
    /\ ~givenEmail.given
    /\ ~analysis.done
    /\ analysis' = [done |-> TRUE,
                    generated |-> generatePhishingEmail(givenEmail, givenEmail.strategy)]
    /\ UNCHANGED <<trainerVars, historyVars, selectionVars, classifierVars, defenseVars,
                   cycleVars, persistVars, systemVars, runVars, metricsVars, eventVars,
                   givenEmail>>

NextScores == ClassifyGiven \/ GeneratePhishingEmail

SpecScores == InitScores /\ [][NextScores]_vars

----------------------------------------------------------------------------
(* run(): the initial cycle, the interval timer, shutdown *)

Agents == {"attack", "defense"}

\* the awaits a cycle goes through before its synchronous end: one sleep per new
\* email in a defense cycle (none when the inbox has no new email), and in an
\* attack cycle at least the 35 s sleep before learning
CycleAwaits(agent) == IF agent = "defense" THEN 0..MaxAwaits ELSE 1..MaxAwaits

\* how a stretch of a cycle between two awaits can end
Outcomes == {"continues", "throws"}

InFlight == DOMAIN cyclesInFlight

Suspend(c, initial, left) ==
    [k \in InFlight \cup {c} |->
        IF k = c THEN [initial |-> initial, left |-> left] ELSE cyclesInFlight[k]]

Settle(c) == [k \in InFlight \ {c} |-> cyclesInFlight[k]]

\* the process after a cycle has thrown: run() awaits the initial cycle outside
\* any try, so its rejection reaches the catch of the entry point, which calls
\* process.exit(1); runCycle catches and logs
\* the catch of executeDefenseCycle counts the cycle before it throws again;
\* executeAttackCycle has no catch of its own
AfterThrow(run, initial) ==
    LET counted == IF run.agent = "defense"
                   THEN [run EXCEPT !.totalCycles = @ + 1] ELSE run
    IN  IF initial
        THEN [counted EXCEPT !.exit = "exit1"]
        ELSE [counted EXCEPT !.cycleErrors = @ + 1]

\* the process after a cycle has returned: after the initial one run() goes on to
\* setInterval
AfterReturn(run, initial) ==
    [run EXCEPT !.totalCycles = @ + 1, !.cycleInterval = @ \/ initial]

InitRun ==
    /\ TrainerFresh
    /\ HistoryIdle
    /\ NothingSelected
    /\ ClassifierIdle
    /\ DefenseIdle
    /\ NothingSaved
    /\ SystemIdle
    /\ AnalysisIdle
    /\ agentRun \in {[NoRun EXCEPT !.agent = a] : a \in Agents}
    /\ MetricsIdle
    /\ EventsIdle
    /\ cyclesInFlight = EmptyMap

\* a cycle from its start to its first await, or to its end when it has none
BeginCycle(run, initial) ==
    LET c == run.started + 1
        began == [run EXCEPT !.started = c]
    IN  \E outcome \in Outcomes, left \in CycleAwaits(run.agent) :
          IF outcome = "throws"
          THEN /\ agentRun' = AfterThrow(began, initial)
               /\ cyclesInFlight' = cyclesInFlight
          ELSE IF left = 0
          THEN /\ agentRun' = AfterReturn(began, initial)
               /\ cyclesInFlight' = cyclesInFlight
          ELSE /\ agentRun' = began
               /\ cyclesInFlight' = Suspend(c, initial, left)

\* run() up to the await of the initial cycle
Run ==
    /\ agentRun.exit = "none"
    /\ ~agentRun.isRunning
    /\ agentRun.started = 0
    /\ BeginCycle([agentRun EXCEPT !.isRunning = TRUE], TRUE)
    /\ UNCHANGED <<trainerVars, historyVars, selectionVars, classifierVars, defenseVars,
                   cycleVars, persistVars, systemVars, analysisVars,
                   metricsVars, eventVars>>

\* the interval elapses: runCycle starts a cycle, whatever is in flight
RunCycle ==
    /\ agentRun.exit = "none"
    /\ agentRun.cycleInterval
    /\ agentRun.isRunning
    /\ agentRun.started <= MaxTimerCycles
    /\ BeginCycle(agentRun, FALSE)
    /\ UNCHANGED <<trainerVars, historyVars, selectionVars, classifierVars, defenseVars,
                   cycleVars, persistVars, systemVars, analysisVars,
                   metricsVars, eventVars>>

\* a suspended cycle is resumed and runs to its next await, or to its end
ResumeCycle ==
    /\ agentRun.exit = "none"
    /\ \E c \in InFlight, outcome \in Outcomes :
         LET cycle == cyclesInFlight[c] IN
         IF outcome = "throws"
         THEN /\ agentRun' = AfterThrow(agentRun, cycle.initial)
              /\ cyclesInFlight' = Settle(c)
         ELSE IF cycle.left = 1
         THEN /\ agentRun' = AfterReturn(agentRun, cycle.initial)
              /\ cyclesInFlight' = Settle(c)
         ELSE /\ agentRun' = agentRun
              /\ cyclesInFlight' = Suspend(c, cycle.initial, cycle.left - 1)
    /\ UNCHANGED <<trainerVars, historyVars, selectionVars, classifierVars, defenseVars,
                   cycleVars, persistVars, systemVars, analysisVars,
                   metricsVars, eventVars>>

\* SIGINT or SIGTERM once run() has installed the handlers: shutdown()
Shutdown ==
    /\ agentRun.exit = "none"
    /\ agentRun.cycleInterval
    /\ agentRun' = [agentRun EXCEPT !.isRunning = FALSE, !.cycleInterval = FALSE,
                                    !.exit = "exit0"]
    /\ cyclesInFlight' = EmptyMap
    /\ UNCHANGED <<trainerVars, historyVars, selectionVars, classifierVars, defenseVars,
                   cycleVars, persistVars, systemVars, analysisVars,
                   metricsVars, eventVars>>

NextRun == Run \/ RunCycle \/ ResumeCycle \/ Shutdown

SpecRun == InitRun /\ [][NextRun]_vars

----------------------------------------------------------------------------
(* The defense agent over overlapping cycles, saved metrics and restarts *)

\* the counters local to one executeDefenseCycle
NoCounts == [analyzedCount |-> 0, blockedCount |-> 0, reportedCount |-> 0, bypassedCount |-> 0]

\* the loop over newEmails up to the next email classifyEmail returns for: an
\* email it throws on is logged and the loop goes on without sleeping
RECURSIVE SkipThrowing(_, _)
SkipThrowing(cycleEmails, positions) ==
    IF positions = <<>> THEN <<>>
    ELSE IF EmailContents[cycleEmails[Head(positions)].kind].wellFormed THEN positions
         ELSE SkipThrowing(cycleEmails, Tail(positions))

\* saveMetrics: the totals and the processed ids written over the metrics file;
\* a failing write is logged and leaves the file as it was
saveMetrics(totals, ids) == {[stats |-> totals, processedEmailIds |-> ids], metricsFile}

\* the totals after a cycle has added its counters
AddCounts(totals, counts) ==
    [totalEmailsAnalyzed |-> totals.totalEmailsAnalyzed + counts.analyzedCount,
     totalEmailsBlocked  |-> totals.totalEmailsBlocked + counts.blockedCount,
     totalEmailsReported |-> totals.totalEmailsReported + counts.reportedCount,
     totalEmailsBypassed |-> totals.totalEmailsBypassed + counts.bypassedCount]

\* the counters after one email has been classified
CountVerdict(counts, riskLevel) ==
    [counts EXCEPT
        !.analyzedCount = @ + 1,
        !.blockedCount  = IF riskLevel = "high" THEN @ + 1 ELSE @,
        !.reportedCount = IF riskLevel = "medium" THEN @ + 1 ELSE @,
        !.bypassedCount = IF riskLevel \notin {"high", "medium"} THEN @ + 1 ELSE @]

TimesClassified(id) == IF id \in DOMAIN timesClassified THEN timesClassified[id] ELSE 0

\* processedEmailIds.add(email.id)
MarkProcessed(ids, id) == ids \cup {id}

\* executeDefenseCycle from where cycle c stands up to its next await: classify
\* the next email and sleep, or, the list done, write the inbox back, add the
\* counters to the totals and save the metrics
ContinueDefenseCycle(c, cycle) ==
    LET rest == SkipThrowing(cycle.emails, cycle.newEmails) IN
    IF rest = <<>>
    THEN /\ inbox' \in {cycle.emails, inbox}
         /\ stats' = AddCounts(stats, cycle.counts)
         /\ metricsFile' \in saveMetrics(stats', processedEmailIds)
         /\ cyclesInFlight' = Settle(c)
         /\ agentRun' = [agentRun EXCEPT !.cycleInterval = TRUE]
         /\ UNCHANGED <<processedEmailIds, timesClassified>>
    ELSE LET i == Head(rest)
             email == cycle.emails[i]
             verdict == classifyEmail(EmailContents[email.kind])
         IN  /\ cyclesInFlight' =
                    [k \in InFlight \cup {c} |->
                        IF k = c
                        THEN [emails |-> [cycle.emails EXCEPT ![i] =
                                            [email EXCEPT
                                                !.mlClassification = verdict,
                                                !.status = statusAfterAnalysis(email.status,
                                                                               verdict.riskLevel)]],
                              newEmails |-> Tail(rest),
                              counts |-> CountVerdict(cycle.counts, verdict.riskLevel)]
                        ELSE cyclesInFlight[k]]
             /\ processedEmailIds' = MarkProcessed(processedEmailIds, email.id)
             /\ timesClassified' = MapPut(timesClassified, email.id, TimesClassified(email.id) + 1)
             /\ UNCHANGED <<inbox, stats, metricsFile, agentRun>>

InitDefense ==
    /\ TrainerFresh
    /\ HistoryIdle
    /\ NothingSelected
    /\ ClassifierIdle
    /\ DefenseIdle
    /\ NothingSaved
    /\ SystemIdle
    /\ AnalysisIdle
    /\ agentRun = [NoRun EXCEPT !.agent = "defense", !.isRunning = TRUE]
    /\ cyclesInFlight = EmptyMap
    /\ MetricsIdle
    /\ EventsIdle

\* one kind of email for each way a turn of the loop can end: blocked, reported,
\* allowed, classifyEmail throwing
ReceivedKinds == {"phish", "nudge", "notice", "broken"}

\* POST /api/agent/deploy-emails with one new email, while the agent runs or is down
ReceiveEmail ==
    /\ Len(inbox) < MaxInbox
    /\ \E kind \in ReceivedKinds : inbox' = Append(inbox, DeliveredEmail(Len(inbox) + 1, kind))
    /\ UNCHANGED <<trainerVars, historyVars, selectionVars, cycleVars, persistVars, classifierVars,
                   processedEmailIds, defensePhase, emails, newEmails, analysed,
                   systemVars, analysisVars, runVars, metricsVars, eventVars>>

\* executeDefenseCycle from its start to its first await, as the initial cycle of
\* run() or from the interval timer: read the inbox, filter the new emails; with
\* none, save the metrics and return
BeginDefenseCycle ==
    /\ agentRun.isRunning
    /\ agentRun.exit = "none"
    /\ IF agentRun.cycleInterval THEN Cardinality(InFlight) < MaxOverlap ELSE InFlight = {}
    /\ LET c == CHOOSE k \in 1..MaxOverlap : k \notin InFlight IN
       IF NewEmailsFrom(inbox, 1) = <<>>
       THEN /\ metricsFile' \in saveMetrics(stats, processedEmailIds)
            /\ agentRun' = [agentRun EXCEPT !.cycleInterval = TRUE]
            /\ UNCHANGED <<inbox, processedEmailIds, cyclesInFlight, stats, timesClassified>>
       ELSE ContinueDefenseCycle(c, [emails |-> inbox, newEmails |-> NewEmailsFrom(inbox, 1),
                                     counts |-> NoCounts])
    /\ UNCHANGED <<trainerVars, historyVars, selectionVars, cycleVars, persistVars, classifierVars,
                   defensePhase, emails, newEmails, analysed, systemVars, analysisVars,
                   restarts, eventVars>>

\* a cycle resumed after its sleep(100)
ResumeDefenseCycle ==
    /\ agentRun.exit = "none"
    /\ \E c \in InFlight : ContinueDefenseCycle(c, cyclesInFlight[c])
    /\ UNCHANGED <<trainerVars, historyVars, selectionVars, cycleVars, persistVars, classifierVars,
                   defensePhase, emails, newEmails, analysed, systemVars, analysisVars,
                   restarts, eventVars>>

\* SIGINT or SIGTERM: run() installs shutdown() only after the initial cycle has
\* settled, so until then the signal ends the process at once; afterwards
\* shutdown() saves the metrics and exits, whatever cycle is at its sleep
StopDefenseAgent ==
    /\ agentRun.exit = "none"
    /\ restarts < MaxRestarts
    /\ IF agentRun.cycleInterval
       THEN metricsFile' \in saveMetrics(stats, processedEmailIds)
       ELSE UNCHANGED metricsFile
    /\ agentRun' = [agentRun EXCEPT !.isRunning = FALSE, !.cycleInterval = FALSE,
                                    !.exit = "signal"]
    /\ cyclesInFlight' = EmptyMap
    /\ UNCHANGED <<trainerVars, historyVars, selectionVars, cycleVars, persistVars, classifierVars,
                   defenseVars, systemVars, analysisVars, stats, timesClassified, restarts,
                   eventVars>>

\* the agent started again: the constructor's loadMetrics takes the totals and
\* the processed ids from the metrics file
StartDefenseAgent ==
    /\ agentRun.exit # "none"
    /\ stats' = metricsFile.stats
    /\ processedEmailIds' = metricsFile.processedEmailIds
    /\ agentRun' = [agentRun EXCEPT !.isRunning = TRUE, !.exit = "none"]
    /\ restarts' = restarts + 1
    /\ UNCHANGED <<trainerVars, historyVars, selectionVars, cycleVars, persistVars, classifierVars,
                   inbox, defensePhase, emails, newEmails, analysed, systemVars, analysisVars,
                   cyclesInFlight, metricsFile, timesClassified, eventVars>>

NextDefense ==
    \/ ReceiveEmail
    \/ BeginDefenseCycle
    \/ ResumeDefenseCycle
    \/ StopDefenseAgent
    \/ StartDefenseAgent

SpecDefense == InitDefense /\ [][NextDefense]_vars

----------------------------------------------------------------------------
(* simulateUserFlow: the events of a run and its timers *)

\* an email blocked, one reported and one allowed by the defense cycle
EngagedKinds == {"phish", "nudge", "notice"}

Event(name, emailId, run, phantom) ==
    [event |-> name, emailId |-> emailId, run |-> run, phantom |-> phantom]

\* a run of simulateUserFlow: the timer it waits on and what its click timer
\* found in the inbox file
Flow(emailId, stage) == [emailId |-> emailId, stage |-> stage, found |-> "none"]

\* simulateUserFlow up to its return: log sent, then draw whether the email is
\* opened and, if not, whether a scanner clicks it
StartFlow(emailId) ==
    /\ events' = Append(events, Event("sent", emailId, Len(userFlows) + 1, FALSE))
    /\ \E stage \in {"open", "phantom", "done"} :
         userFlows' = Append(userFlows, Flow(emailId, stage))

\* what the click timer finds of the email in the inbox file: the read failing,
\* no email of that id, or its status
Lookups(emailId) ==
    LET i == PositionOf(inbox, emailId) IN
    {"unreadable", IF i = 0 THEN "absent" ELSE inbox[i].status}

\* a click timer that never looks at the status
emailStillBypassed_Always(found) == TRUE

\* emailStillBypassed: false only when the email was found blocked or reported
emailStillBypassed(found) == found \notin {"blocked", "reported"}

InitEngage ==
    /\ TrainerFresh
    /\ HistoryIdle
    /\ NothingSelected
    /\ ClassifierIdle
    /\ DefenseIdle
    /\ NothingSaved
    /\ SystemIdle
    /\ AnalysisIdle
    /\ RunIdle
    /\ MetricsIdle
    /\ EventsIdle

\* POST /api/agent/deploy-emails with one new email: append it, start its run,
\* write the file
DeployAndSimulate ==
    /\ Len(userFlows) < MaxRuns
    /\ \E kind \in EngagedKinds : inbox' = Append(inbox, DeliveredEmail(Len(inbox) + 1, kind))
    /\ StartFlow(Len(inbox) + 1)
    /\ UNCHANGED <<trainerVars, historyVars, selectionVars, cycleVars, persistVars, classifierVars,
                   processedEmailIds, defensePhase, emails, newEmails, analysed,
                   systemVars, analysisVars, runVars, metricsVars>>

\* POST /events/generated: a run for the email id of the body, in the inbox or not
PostGenerated ==
    /\ Len(userFlows) < MaxRuns
    /\ \E emailId \in 1..(MaxRuns + 1) : StartFlow(emailId)
    /\ UNCHANGED <<trainerVars, historyVars, selectionVars, cycleVars, persistVars, classifierVars,
                   defenseVars, systemVars, analysisVars, runVars, metricsVars>>

\* the open timer: log opened, then draw a click, a report without click, or nothing
OpenTimer ==
    /\ \E r \in DOMAIN userFlows :
         /\ userFlows[r].stage = "open"
         /\ events' = Append(events, Event("opened", userFlows[r].emailId, r, FALSE))
         /\ \E stage \in {"click", "report", "done"} :
              userFlows' = [userFlows EXCEPT ![r].stage = stage]
    /\ UNCHANGED <<trainerVars, historyVars, selectionVars, cycleVars, persistVars, classifierVars,
                   defenseVars, systemVars, analysisVars, runVars, metricsVars>>

\* the click timer: look the email up; unless it is found blocked or reported,
\* log clicked, set clicked in the inbox file and draw a report after the click
ClickTimer ==
    /\ \E r \in DOMAIN userFlows :
         /\ userFlows[r].stage = "click"
         /\ \E found \in Lookups(userFlows[r].emailId) :
              IF emailStillBypassed(found)
              THEN /\ events' = Append(events, Event("clicked", userFlows[r].emailId, r, FALSE))
                   /\ LET i == PositionOf(inbox, userFlows[r].emailId) IN
                      IF found \notin {"unreadable", "absent", "blocked", "reported"}
                      THEN inbox' \in {[inbox EXCEPT ![i].clicked = TRUE], inbox}
                      ELSE UNCHANGED inbox
                   /\ \E stage \in {"report", "done"} :
                        userFlows' = [userFlows EXCEPT ![r].stage = stage, ![r].found = found]
              ELSE /\ userFlows' = [userFlows EXCEPT ![r].stage = "done", ![r].found = found]
                   /\ UNCHANGED <<events, inbox>>
    /\ UNCHANGED <<trainerVars, historyVars, selectionVars, cycleVars, persistVars, classifierVars,
                   processedEmailIds, defensePhase, emails, newEmails, analysed,
                   systemVars, analysisVars, runVars, metricsVars>>

\* the report timer, after a click or after an open without click
ReportTimer ==
    /\ \E r \in DOMAIN userFlows :
         /\ userFlows[r].stage = "report"
         /\ events' = Append(events, Event("reported", userFlows[r].emailId, r, FALSE))
         /\ userFlows' = [userFlows EXCEPT ![r].stage = "done"]
    /\ UNCHANGED <<trainerVars, historyVars, selectionVars, cycleVars, persistVars, classifierVars,
                   defenseVars, systemVars, analysisVars, runVars, metricsVars>>

\* the phantom timer: log a clicked event marked phantom, whatever the inbox holds
PhantomTimer ==
    /\ \E r \in DOMAIN userFlows :
         /\ userFlows[r].stage = "phantom"
         /\ events' = Append(events, Event("clicked", userFlows[r].emailId, r, TRUE))
         /\ userFlows' = [userFlows EXCEPT ![r].stage = "done"]
    /\ UNCHANGED <<trainerVars, historyVars, selectionVars, cycleVars, persistVars, classifierVars,
                   defenseVars, systemVars, analysisVars, runVars, metricsVars>>

NextEngage ==
    \/ DeployAndSimulate
    \/ PostGenerated
    \/ OpenTimer
    \/ ClickTimer
    \/ ReportTimer
    \/ PhantomTimer
    \/ StartDefenseCycle
    \/ AnalyzeEmail
    \/ SaveInbox

SpecEngage == InitEngage /\ [][NextEngage]_vars

----------------------------------------------------------------------------
(* Properties of the learning loop *)

CombinationKeys == Strategies \X PersonaIds

EntryOf(m, key) == IF key \in DOMAIN m THEN m[key] ELSE ZeroCombinationEntry

\* the rate the ledger contract prescribes after one record: the running mean
\* while attempts <= minAttempts, old*0.95 + observed*0.05 afterwards
PrescribedRate(old, attempts, observed) ==
    IF attempts <= minAttemptsForLearning
    THEN (old * (attempts - 1) + observed) \div attempts
    ELSE (old * 19 + observed) \div 20

RECURSIVE PrescribedAfter(_, _, _)
PrescribedAfter(old, attempts, observations) ==
    IF observations = <<>> THEN old
    ELSE PrescribedAfter(PrescribedRate(old, attempts + 1, Head(observations)),
                         attempts + 1, Tail(observations))

CountHits(observations) ==
    Cardinality({i \in 1..Len(observations) : observations[i] = Hundred})

\* entry `new` is entry `old` after some records whose observed outcomes are 0 or 100
RecordedAsPrescribed(old, new) ==
    LET d == new.attempts - old.attempts IN
    \/ d = 0 /\ new.bypassRate = old.bypassRate /\ new.clickRate = old.clickRate
    \/ /\ d > 0
       /\ \E ob, oc \in [1..d -> {0, Hundred}] :
            /\ new.bypassRate = PrescribedAfter(old.bypassRate, old.attempts, ob)
            /\ new.clickRate = PrescribedAfter(old.clickRate, old.attempts, oc)
            /\ new.successes = old.successes + CountHits(ob)

\* C3: every record updates bypassRate and clickRate of its key by the running
\* mean (old*(a-1) + o)/a while the incremented attempts a <= minAttempts, and by
\* old*0.95 + o*0.05 once a > minAttempts, with o in {0, 100}.
C3_RateUpdate ==
    [][ /\ \A s \in Strategies :
             RecordedAsPrescribed(strategyScores[s], strategyScores'[s])
        /\ \A p \in PersonaIds :
             RecordedAsPrescribed(personaVulnerabilities[p], personaVulnerabilities'[p])
        /\ \A k \in CombinationKeys :
             RecordedAsPrescribed(EntryOf(combinations, k), EntryOf(combinations', k))
      ]_vars

\* C3 witness: a key past minAttempts whose rates were decayed from a running mean
C3_Witness ==
    \E s \in Strategies :
        /\ strategyScores[s].attempts > minAttemptsForLearning
        /\ strategyScores[s].bypassRate > 0
        /\ strategyScores[s].bypassRate < Hundred
        /\ strategyScores[s].clickRate > 0
        /\ strategyScores[s].clickRate < Hundred
        /\ strategyScores[s].clickRate # strategyScores[s].bypassRate

AttemptsCountEmails ==
    /\ \A s \in Strategies : strategyScores[s].attempts = seenStrategy[s]
    /\ \A p \in PersonaIds : personaVulnerabilities[p].attempts = seenPersona[p]
    /\ \A k \in CombinationKeys : EntryOf(combinations, k).attempts = seenCombination[k]

AttemptsNeverDecrease ==
    /\ \A s \in Strategies : strategyScores'[s].attempts >= strategyScores[s].attempts
    /\ \A p \in PersonaIds :
         personaVulnerabilities'[p].attempts >= personaVulnerabilities[p].attempts
    /\ \A k \in CombinationKeys :
         EntryOf(combinations', k).attempts >= EntryOf(combinations, k).attempts

\* C4: from a freshly seeded ledger, the attempts of every strategy, persona and
\* combination key equal the number of emails learn has processed with that key,
\* and attempts never decrease.
C4_AttemptsCount == []AttemptsCountEmails /\ [][AttemptsNeverDecrease]_vars

\* C4 witness: keys with several emails, spread over two strategies
C4_Witness ==
    /\ \E s \in Strategies : seenStrategy[s] >= 3
    /\ \E s \in Strategies : seenStrategy[s] = 1
    /\ \E p \in PersonaIds : seenPersona[p] >= 2
    /\ \E k \in CombinationKeys : seenCombination[k] >= 2

RateInRange(r) == 0 <= r /\ r <= Hundred

\* C5: every bypassRate and clickRate of every strategy, persona and combination
\* entry lies in [0, 100] in every state reachable from a freshly seeded ledger.
C5_RatesInRange ==
    /\ \A s \in DOMAIN strategyScores :
         RateInRange(strategyScores[s].bypassRate) /\ RateInRange(strategyScores[s].clickRate)
    /\ \A p \in DOMAIN personaVulnerabilities :
         /\ RateInRange(personaVulnerabilities[p].bypassRate)
         /\ RateInRange(personaVulnerabilities[p].clickRate)
    /\ \A k \in DOMAIN combinations :
         RateInRange(combinations[k].bypassRate) /\ RateInRange(combinations[k].clickRate)

\* C5 witness: after a decay step one entry sits at the upper end of the range,
\* another entry at the lower end
C5_Witness ==
    /\ \E s \in Strategies :
         /\ strategyScores[s].attempts > minAttemptsForLearning
         /\ strategyScores[s].bypassRate = Hundred
    /\ \E p \in PersonaIds :
         /\ personaVulnerabilities[p].attempts > 0
         /\ personaVulnerabilities[p].bypassRate = Hundred
         /\ personaVulnerabilities[p].clickRate = 0

----------------------------------------------------------------------------
(* Properties of target selection *)

\* the bonus of the ranking contract
ContractBonus(attempts) ==
    IF attempts < minAttemptsForLearning THEN 20 * (minAttemptsForLearning - attempts)
    ELSE IF attempts < 2 * minAttemptsForLearning
         THEN 10 * (2 * minAttemptsForLearning - attempts)
         ELSE 0

\* vulnerabilityScore * min(attempts/minAttempts, 1) + bonus of persona p, times
\* minAttemptsForLearning * ScoreScale
ContractRank(p) ==
    personaVulnerabilities[p].vulnerabilityScore
        * Min(personaVulnerabilities[p].attempts, minAttemptsForLearning)
    + ContractBonus(personaVulnerabilities[p].attempts) * minAttemptsForLearning * ScoreScale

\* p comes before q in the descending order with ties in enumeration order
RankedBefore(p, q) ==
    \/ ContractRank(p) > ContractRank(q)
    \/ ContractRank(p) = ContractRank(q) /\ IndexOf(allPersonas, p) < IndexOf(allPersonas, q)

NoDuplicates(q) == \A i, j \in 1..Len(q) : i # j => q[i] # q[j]

FirstRanked(sel, n) ==
    /\ Len(sel) = Min(n, Len(allPersonas))
    /\ SeqToSet(sel) \subseteq PersonaIds
    /\ \A i, j \in 1..Len(sel) : i < j => RankedBefore(sel[i], sel[j])
    /\ \A i \in 1..Len(sel) : \A q \in PersonaIds \ SeqToSet(sel) : RankedBefore(sel[i], q)

\* C6: selectTargets(n) returns the first n personas of the persona list sorted
\* in descending order of vulnerabilityScore*min(attempts/minAttempts, 1) + bonus,
\* equal values keeping their enumeration order -- stated of both copies.
C6_TargetsRankedByContract ==
    targetsBy # "none" => FirstRanked(selectedTargets, count)

\* the same statement of the first copy alone
FirstCopyRankedByContract ==
    targetsBy = "first" => FirstRanked(selectedTargets, count)

\* C6 divergence: the second copy returned personas that are not the first n of
\* that order although n is at most the number of personas
C6_SecondCopyDiverges ==
    /\ targetsBy = "second"
    /\ count \in 1..Len(allPersonas)
    /\ Len(selectedTargets) = count
    /\ ~FirstRanked(selectedTargets, count)

\* p is ranked below q in the result: q was selected without p, or ahead of p
RankedBelow(p, q) ==
    \/ q \in SeqToSet(selectedTargets) /\ p \notin SeqToSet(selectedTargets)
    \/ /\ p \in SeqToSet(selectedTargets)
       /\ q \in SeqToSet(selectedTargets)
       /\ IndexOf(selectedTargets, p) > IndexOf(selectedTargets, q)

\* p has no attempts, q has at least minAttempts, their vulnerabilityScores are equal
UnexploredAgainstExplored(p, q) ==
    /\ personaVulnerabilities[p].attempts = 0
    /\ personaVulnerabilities[q].attempts >= minAttemptsForLearning
    /\ personaVulnerabilities[p].vulnerabilityScore = personaVulnerabilities[q].vulnerabilityScore

\* the explored persona's score plus bonus stays below the unexplored persona's
\* bonus of 20 * minAttempts
ExploredStaysBelowBonus(q) ==
    personaVulnerabilities[q].vulnerabilityScore
        + ContractBonus(personaVulnerabilities[q].attempts) * ScoreScale
    < 20 * minAttemptsForLearning * ScoreScale

\* C7 as stated: a persona with zero attempts is never ranked below a persona
\* with at least minAttempts attempts and the same vulnerabilityScore, whatever
\* that score.
C7_UnexploredNeverBelow ==
    targetsBy = "first" =>
        \A p, q \in PersonaIds : UnexploredAgainstExplored(p, q) => ~RankedBelow(p, q)

\* C7 amended: a persona with zero attempts is never ranked below a persona with
\* at least minAttempts attempts and the same vulnerabilityScore, provided that
\* score plus the other persona's bonus is below 20*minAttempts (60).
C7_UnexploredNeverBelow_Amended ==
    targetsBy = "first" =>
        \A p, q \in PersonaIds :
            UnexploredAgainstExplored(p, q) /\ ExploredStaysBelowBonus(q) => ~RankedBelow(p, q)

\* C7 witness: an unexplored persona enumerated after an explored one with the
\* same score was selected ahead of it
C7_Witness ==
    /\ targetsBy = "first"
    /\ \E p, q \in PersonaIds :
         /\ UnexploredAgainstExplored(p, q)
         /\ ExploredStaysBelowBonus(q)
         /\ IndexOf(allPersonas, q) < IndexOf(allPersonas, p)
         /\ p \in SeqToSet(selectedTargets)
         /\ q \in SeqToSet(selectedTargets)
         /\ IndexOf(selectedTargets, p) < IndexOf(selectedTargets, q)

\* C8: for every n >= 0 selectTargets(n) returns exactly min(n, number of
\* personas) personas, none of them twice -- stated of both copies.
C8_TargetsCount ==
    targetsBy # "none" =>
        /\ Len(selectedTargets) = Min(count, Len(allPersonas))
        /\ NoDuplicates(selectedTargets)

\* the same statement of the first copy alone
FirstCopyTargetsCount ==
    targetsBy = "first" =>
        /\ Len(selectedTargets) = Min(count, Len(allPersonas))
        /\ NoDuplicates(selectedTargets)

\* C8 divergence: asked for no persona, the second copy returned one
C8_SecondCopyReturnsOne ==
    /\ targetsBy = "second"
    /\ count = 0
    /\ Len(selectedTargets) = 1

----------------------------------------------------------------------------
(* Properties of strategy selection *)

\* score * min(attempts/minAttempts, 1) of strategy s, times minAttemptsForLearning
ContractWeighted(s) ==
    strategyScores[s].score * Min(strategyScores[s].attempts, minAttemptsForLearning)

NothingLearned == \A s \in Strategies : strategyScores[s].attempts = 0

\* C9: when selectStrategy() does not explore it returns a strategy maximizing
\* score*min(attempts/minAttempts, 1) over the enumerated strategies; it returns
\* the first enumerated strategy when the ledger has no entries, be it the empty
\* ledger or the seeded one nothing was learned into.
C9_ExploitationMaximizes ==
    strategyBy = "exploitation" =>
        /\ bestStrategy \in Strategies
        /\ \A t \in Strategies : ContractWeighted(bestStrategy) >= ContractWeighted(t)
        /\ NothingLearned => bestStrategy = allStrategies[1]
        /\ selectBestStrategy(allStrategies, EmptyMap) = allStrategies[1]

\* C9 witness: exploitation returned a strategy that is not the first enumerated
\* and whose raw score is lower than that of a less tried strategy
C9_Witness ==
    /\ strategyBy = "exploitation"
    /\ bestStrategy # allStrategies[1]
    /\ \A t \in Strategies \ {bestStrategy} :
         ContractWeighted(bestStrategy) > ContractWeighted(t)
    /\ \E t \in Strategies :
         /\ strategyScores[t].score > strategyScores[bestStrategy].score
         /\ strategyScores[t].attempts \in 1..(minAttemptsForLearning - 1)

\* the ledger of scenario C: two strategies with the same bypassRate and the same
\* clickRate, z without attempts, x with at least minAttempts
SameRatesPair(z, x) ==
    /\ Len(allStrategies) = 2
    /\ z # x
    /\ strategyScores[z].attempts = 0
    /\ strategyScores[x].attempts >= minAttemptsForLearning
    /\ strategyScores[z].bypassRate = strategyScores[x].bypassRate
    /\ strategyScores[z].clickRate = strategyScores[x].clickRate

\* C10 as stated: with explorationRate = 0, of two strategies with identical
\* rates, one with 0 attempts and one with at least minAttempts, selectStrategy()
\* returns the one with more attempts, whatever the order and the common rate.
C10_PrefersTried ==
    strategyBy = "exploitation" /\ explorationRate = 0 =>
        \A z, x \in Strategies : SameRatesPair(z, x) => bestStrategy = x

\* C10 amended: the same, provided the score of the strategy with attempts is
\* positive (the common bypassRate is above 0).
C10_PrefersTried_Amended ==
    strategyBy = "exploitation" /\ explorationRate = 0 =>
        \A z, x \in Strategies :
            SameRatesPair(z, x) /\ strategyScores[x].score > 0 => bestStrategy = x

\* C10 witness: the untried strategy is enumerated first and the tried one is returned
C10_Witness ==
    /\ strategyBy = "exploitation"
    /\ explorationRate = 0
    /\ \E z, x \in Strategies :
         /\ SameRatesPair(z, x)
         /\ strategyScores[x].score > 0
         /\ allStrategies[1] = z
         /\ bestStrategy = x

----------------------------------------------------------------------------
(* Properties of the decision tree *)

\* the predicates of the priority list, rule 7 as the list words it
ListedRule(k, f) ==
    CASE k = 1 -> f.hasUrls /\ f.urlAuthenticityScore < 30
      [] k = 2 -> f.credentialKeywords >= 2 /\ f.urgencyKeywords >= 2
      [] k = 3 -> f.urlDomainMismatch
      [] k = 4 -> f.totalSuspicionScore >= 20
      [] k = 5 -> f.senderAuthenticityScore < 40
                  /\ (f.credentialKeywords >= 1 \/ f.securityKeywords >= 1)
      [] k = 6 -> f.totalUrgencyScore >= 15 /\ f.professionalismScore < 60
      [] k = 7 -> 30 <= f.urlAuthenticityScore /\ f.urlAuthenticityScore < 60
      [] k = 8 -> f.grammarScore < 50
                  /\ (f.credentialKeywords >= 1 \/ f.financialKeywords >= 1)
      [] k = 9 -> f.professionalismScore >= 70 /\ f.grammarScore >= 60
                  /\ f.senderAuthenticityScore >= 60
      [] k = 10 -> TRUE

\* the same list with rule 7 asking for a suspicious URL pattern as well
AmendedRule(k, f) ==
    IF k = 7 THEN f.hasSuspiciousUrls /\ ListedRule(7, f) ELSE ListedRule(k, f)

ListedVerdict ==
    <<Leaf("high", 85, 90), Leaf("high", 80, 85), Leaf("high", 75, 80), Leaf("high", 70, 75),
      Leaf("medium", 55, 70), Leaf("medium", 50, 65), Leaf("medium", 45, 60),
      Leaf("medium", 40, 55), Leaf("low", 25, 80), Leaf("low", 30, 60)>>

FirstListed(f) == CHOOSE k \in 1..10 : ListedRule(k, f) /\ \A j \in 1..(k - 1) : ~ListedRule(j, f)
FirstAmended(f) == CHOOSE k \in 1..10 : AmendedRule(k, f) /\ \A j \in 1..(k - 1) : ~AmendedRule(j, f)

\* C1 as stated: classify returns the verdict of the first rule of the priority
\* list whose predicate holds, rule 1 needing URLs, rule 7 being
\* 30 <= urlAuthenticityScore < 60, rule 10 applying when none of rules 1-9 holds.
C1_DecisionList ==
    classification # NoClassification => classification = ListedVerdict[FirstListed(features)]

\* C1 amended: the same decision list, with rule 7 being hasSuspiciousUrls and
\* 30 <= urlAuthenticityScore < 60.
C1_DecisionList_Amended ==
    classification # NoClassification => classification = ListedVerdict[FirstAmended(features)]

\* C1 witness: rule 7 decided an email with a suspicious URL pattern and a
\* urlAuthenticityScore between 30 and 60
C1_Witness ==
    /\ classification = Leaf("medium", 45, 60)
    /\ features.hasUrls
    /\ features.hasSuspiciousUrls
    /\ features.urlAuthenticityScore >= 30
    /\ features.urlAuthenticityScore < 60

----------------------------------------------------------------------------
(* Properties of the defense cycle *)

\* the status the contract gives an email that was delivered when analysed
ContractStatus(riskLevel) ==
    CASE riskLevel = "high" -> "blocked"
      [] riskLevel = "medium" -> "reported"
      [] riskLevel = "low" -> "delivered"

AnalysedEmails == {i \in 1..Len(emails) : emails[i].id \in analysed}

\* C2: at the end of a defense cycle every email the cycle analysed has status
\* blocked if its verdict is high, reported if it is medium, and still delivered
\* if it is low.
C2_StatusFollowsVerdict ==
    defensePhase = "idle" =>
        \A i \in AnalysedEmails :
            emails[i].status = ContractStatus(classifyEmail(EmailContents[emails[i].kind]).riskLevel)

\* C2 witness: one cycle has ended with a blocked, a reported and a delivered email
C2_Witness ==
    /\ defensePhase = "idle"
    /\ \E i, j, k \in AnalysedEmails :
         /\ emails[i].mlClassification.riskLevel = "high" /\ emails[i].status = "blocked"
         /\ emails[j].mlClassification.riskLevel = "medium" /\ emails[j].status = "reported"
         /\ emails[k].mlClassification.riskLevel = "low" /\ emails[k].status = "delivered"

----------------------------------------------------------------------------
(* C11: getBestStrategyForPersona *)

\* the persona the cycle assigned a strategy to last
LastTarget == targetStrategies[Len(targetStrategies)].persona

\* the strategies whose combination entry with persona p has attempts >= minAttempts
QualifyingFor(p) ==
    {s \in Strategies :
        /\ <<s, p>> \in DOMAIN combinations
        /\ combinations[<<s, p>>].attempts >= minAttemptsForLearning}

\* 0.7*bypassRate + 0.3*clickRate of the combination entry, times 10
ContractCombinationScore(s, p) ==
    7 * combinations[<<s, p>>].bypassRate + 3 * combinations[<<s, p>>].clickRate

\* C11: for the persona p of the last assignment, getBestStrategyForPersona(p)
\* returned a strategy that maximizes 0.7*bypassRate + 0.3*clickRate among the
\* strategies whose combination entry with p has attempts >= minAttempts, and it
\* fell back to selectBestStrategy() if and only if no strategy has such an entry
C11_BestCombination ==
    targetStrategies # <<>> =>
        /\ (strategyBy \in {"exploration", "exploitation"}) <=> (QualifyingFor(LastTarget) = {})
        /\ QualifyingFor(LastTarget) # {} =>
              /\ strategyBy = "combination"
              /\ bestStrategy \in QualifyingFor(LastTarget)
              /\ \A s \in QualifyingFor(LastTarget) :
                    ContractCombinationScore(bestStrategy, LastTarget)
                        >= ContractCombinationScore(s, LastTarget)

\* a persona with two qualifying strategies of different scores and a third
\* strategy whose entry has higher rates but too few attempts
C11_Witness ==
    /\ targetStrategies # <<>>
    /\ strategyBy = "combination"
    /\ \E s \in QualifyingFor(LastTarget) :
          ContractCombinationScore(s, LastTarget)
              < ContractCombinationScore(bestStrategy, LastTarget)
    /\ \E s \in Strategies \ QualifyingFor(LastTarget) :
          /\ <<s, LastTarget>> \in DOMAIN combinations
          /\ ContractCombinationScore(s, LastTarget)
                > ContractCombinationScore(bestStrategy, LastTarget)

----------------------------------------------------------------------------
(* C12: strategy diversity within one attack cycle *)

\* the strategies assigned to the first n targets of the cycle
AssignedTo(assignments, n) == {assignments[i].strategy : i \in 1..n}

\* a step that assigns a target while a strategy is still unused, in a cycle of
\* more than one target, gives it a strategy no other target of the cycle has
AssignsUnusedStrategy ==
    (/\ Len(targetStrategies') = Len(targetStrategies) + 1
     /\ Len(selectedTargets) > 1
     /\ Strategies \ AssignedTo(targetStrategies, Len(targetStrategies)) # {})
    => targetStrategies'[Len(targetStrategies')].strategy
           \notin AssignedTo(targetStrategies, Len(targetStrategies))

\* with at most as many targets as strategies, the assigned strategies are
\* pairwise distinct
AssignedPairwiseDistinct ==
    Len(selectedTargets) <= Cardinality(Strategies) =>
        \A i, j \in 1..Len(targetStrategies) :
            i # j => targetStrategies[i].strategy # targetStrategies[j].strategy

\* C12: within one attack cycle of more than one target, a target assigned while
\* some strategy is still unused gets a strategy not assigned to another target of
\* the cycle; with at most as many targets as strategies the assigned strategies
\* are pairwise distinct
C12_StrategyDiversity == []AssignedPairwiseDistinct /\ [][AssignsUnusedStrategy]_vars

\* a target whose preferred strategy was already used got another one
C12_Witness ==
    /\ Len(targetStrategies) >= 2
    /\ bestStrategy \in AssignedTo(targetStrategies, Len(targetStrategies) - 1)
    /\ targetStrategies[Len(targetStrategies)].strategy # bestStrategy

----------------------------------------------------------------------------
(* C16: the composite score of a recorded entry *)

\* 0.6*bypassRate + 0.4*clickRate, times 10
ContractComposite(entry) == 6 * entry.bypassRate + 4 * entry.clickRate

\* C16: after every record, the score of a strategy entry and the
\* vulnerabilityScore of a persona entry equal 0.6*bypassRate + 0.4*clickRate of
\* that entry
C16_CompositeScore ==
    /\ \A s \in DOMAIN strategyScores :
          strategyScores[s].attempts > 0 =>
              strategyScores[s].score = ContractComposite(strategyScores[s])
    /\ \A p \in DOMAIN personaVulnerabilities :
          personaVulnerabilities[p].attempts > 0 =>
              personaVulnerabilities[p].vulnerabilityScore
                  = ContractComposite(personaVulnerabilities[p])

\* what the trainer records instead: 0.7*bypassRate + 0.3*clickRate
C16_ScoreWeighs70To30 ==
    /\ \A s \in DOMAIN strategyScores :
          strategyScores[s].attempts > 0 =>
              strategyScores[s].score
                  = 7 * strategyScores[s].bypassRate + 3 * strategyScores[s].clickRate
    /\ \A p \in DOMAIN personaVulnerabilities :
          personaVulnerabilities[p].attempts > 0 =>
              personaVulnerabilities[p].vulnerabilityScore
                  = 7 * personaVulnerabilities[p].bypassRate
                    + 3 * personaVulnerabilities[p].clickRate

\* one email recorded as bypassed and not clicked: score 70 where the stated
\* weights give 60
C16_Witness ==
    \E s \in DOMAIN strategyScores :
        /\ strategyScores[s].attempts = 1
        /\ strategyScores[s].bypassRate = Hundred
        /\ strategyScores[s].clickRate = 0
        /\ strategyScores[s].score = 70 * ScoreScale

----------------------------------------------------------------------------
(* C19: learnFromCycle ends by saving the ledger *)

\* a step of learnFromCycle
IsLearnStep == learnedCount' > learnedCount

\* after a successful write the file holds the ledger in memory
FileHoldsLedger ==
    saved = "ok" =>
        /\ learnedFile.exists
        /\ learnedFile.strategyScores = strategyScores
        /\ learnedFile.personaVulnerabilities = personaVulnerabilities
        /\ learnedFile.combinations = combinations

\* every learnFromCycle attempts the save, and a successful one leaves in the
\* backup what the file held just before
BackupHoldsPrevious ==
    IsLearnStep =>
        /\ saved' \in {"ok", "failed"}
        /\ (saved' = "ok" /\ learnedFile.exists) => learnedBackup' = learnedFile
        /\ (saved' = "ok" /\ ~learnedFile.exists) => learnedBackup' = learnedBackup

\* C19: every learnFromCycle call that records emails ends by saving the ledger;
\* after a successful write the ledger file equals the ledger in memory and the
\* backup file holds the version the file held immediately before this write
C19_SavedAfterLearn == []FileHoldsLedger /\ [][BackupHoldsPrevious]_vars

\* a second successful save: the backup holds the first saved ledger, the file
\* the ledger after one more email
C19_Witness ==
    /\ saved = "ok"
    /\ learnedBackup.exists
    /\ learnedBackup.parses
    /\ learnedBackup.strategyScores # strategyScores
    /\ learnedFile.strategyScores = strategyScores

----------------------------------------------------------------------------
(* C20: the ledger survives save and load *)

\* a new trainer is constructed right after a successful save
IsRestartAfterSave == saved = "ok" /\ saved' = "none"

\* every key of the saved ledger has the same entry in the new trainer
SameEntries(old, new) ==
    \A k \in DOMAIN old : k \in DOMAIN new /\ new[k] = old[k]

LedgerUnchanged ==
    /\ strategyScores' = strategyScores
    /\ personaVulnerabilities' = personaVulnerabilities
    /\ combinations' = combinations

\* C15: when the inbox file cannot be read or parsed while learnFromCycle runs,
\* learning is skipped for the whole cycle: no entry of the ledger changes
C15_ReadFailureSkipsLearning ==
    [][(IsLearnStep /\ inboxRead' = "unreadable") => LedgerUnchanged]_vars

\* what the code does instead: getEmailStatuses answers {} and every email of the
\* cycle is recorded as neither bypassed nor clicked
C15_ReadFailureRecordsFailures ==
    [][(IsLearnStep /\ inboxRead' = "unreadable") =>
          \E emailsGenerated \in CycleEmails(1) :
              Ledger' = learnFromCycle(Ledger, emailsGenerated, ReadableInbox(EmptyMap))]_vars

\* a cycle learned from an unreadable inbox has left its mark in the ledger
C15_Witness ==
    /\ inboxRead = "unreadable"
    /\ learnedCount = 1
    /\ \E s \in DOMAIN strategyScores : strategyScores[s].attempts = 1


\* ---------------------------------------------------------------------------
\* learnFromCycle against the inbox the three processes share

\* the email the attack cycle is about to learn from, and its record in the file
LearnedEmail == generatedEmails[1]
StoredIds == {inbox[i].id : i \in DOMAIN inbox}
StoredEmail == InboxById(inbox)[LearnedEmail.id]

\* the outcome the statement gives an email with this stored record
ContractOutcome(stored) ==
    [bypassed |-> stored.status \in {"delivered", "unset"},
     clicked |-> stored.clicked = TRUE]

LearnsStoredOutcome ==
    (IsLearnStep /\ generatedEmails # <<>> /\ LearnedEmail.id \in StoredIds) =>
        Ledger' = LearnEmail(Ledger, LearnedEmail,
                             [id \in {LearnedEmail.id} |-> ContractOutcome(StoredEmail)])

AttemptsOf(map, key) == IF key \in DOMAIN map THEN map[key].attempts ELSE 0

CountsAttemptOnly(old, new, key) ==
    /\ key \in DOMAIN new
    /\ new[key].attempts = AttemptsOf(old, key) + 1
    /\ key \in DOMAIN old => new[key].successes = old[key].successes
    /\ key \notin DOMAIN old => new[key].successes = 0

LearnsAbsentAsFailure ==
    (IsLearnStep /\ generatedEmails # <<>> /\ LearnedEmail.id \notin StoredIds) =>
        /\ inboxRead' = "readable"
        /\ saved' = "ok"
        /\ Ledger' = LearnEmail(Ledger, LearnedEmail,
                                [id \in {LearnedEmail.id} |->
                                     [bypassed |-> FALSE, clicked |-> FALSE]])
        /\ CountsAttemptOnly(strategyScores, strategyScores', LearnedEmail.strategy)
        /\ CountsAttemptOnly(personaVulnerabilities, personaVulnerabilities',
                             LearnedEmail.persona)
        /\ CountsAttemptOnly(combinations, combinations',
                             <<LearnedEmail.strategy, LearnedEmail.persona>>)

\* C14: an email generated in the cycle whose id the inbox does not hold when
\* learnFromCycle runs is recorded as neither bypassed nor clicked: attempts of
\* every matching entry grows by one, successes stays, and the call completes
C14_AbsentEmailCountsAsFailure == [][LearnsAbsentAsFailure]_vars

\* a cycle whose deployment failed has been learned: the email is not in the
\* inbox, its strategy has an attempt and no success
C14_Witness ==
    /\ learnedCount = 1
    /\ inbox = <<>>
    /\ inboxRead = "readable"
    /\ saved = "ok"
    /\ strategyScores[1].attempts = 1
    /\ strategyScores[1].successes = 0
    /\ combinations[<<1, 1>>].attempts = 1


\* ---------------------------------------------------------------------------
\* the statuses and the clicked field in the inbox file

StatusOf(q, id) == q[PositionOf(q, id)].status

\* a stored blocked or reported status is the same after the step
TerminalStays ==
    \A id \in StoredIds :
        (StatusOf(inbox, id) \in {"blocked", "reported"} /\ PositionOf(inbox', id) # 0) =>
            StatusOf(inbox', id) = StatusOf(inbox, id)

\* a step of the defense cycle that gives an email a status gives it to an email
\* the agent had not processed before
AssignsOnce ==
    \A i \in DOMAIN emails :
        (i \in DOMAIN emails' /\ emails'[i].id = emails[i].id
           /\ emails'[i].status # emails[i].status) =>
            emails[i].id \notin processedEmailIds

\* C17: under every interleaving of defense cycles, the deploy handler, click
\* persistence and inbox sync, a persisted status of blocked or reported never
\* changes again, and the classifier gives each email a status at most once
C17_TerminalStatus == [][TerminalStays /\ AssignsOnce]_vars

\* every step that takes a blocked or reported status back is a sync
C17_OnlySyncReverts ==
    [][~TerminalStays =>
          (inbox' \in StaleCopies(inbox) /\ UNCHANGED <<processedEmailIds, systemVars>>)]_vars

\* an email the defense agent has processed, and will not analyse again, stands
\* as delivered in the inbox file
C17_Witness ==
    /\ defensePhase = "idle"
    /\ \E i \in DOMAIN inbox :
         /\ inbox[i].kind = "phish"
         /\ inbox[i].status = "delivered"
         /\ inbox[i].id \in processedEmailIds

ClickedAtMostOnce == \A id \in DOMAIN clickWrites : clickWrites[id] <= 1

ClickSetOnlyWhileDelivered ==
    \A id \in DOMAIN clickWrites' :
        ClickWritesOf(id)' > ClickWritesOf(id) =>
            /\ id \in StoredIds
            /\ StatusOf(inbox, id) \in {"delivered", "unset"}
            /\ inbox'[PositionOf(inbox, id)].clicked

\* C18: the simulator sets an email's clicked field to true at most once per
\* email, and only when the stored status at that moment is delivered or unset
C18_ClickedOnce == []ClickedAtMostOnce /\ [][ClickSetOnlyWhileDelivered]_vars

\* the half that holds: clicked is set only on an email stored as delivered
C18_SetOnlyWhileDelivered == [][ClickSetOnlyWhileDelivered]_vars

\* two flows of one email have both set its clicked field
C18_Witness ==
    \E id \in DOMAIN clickWrites :
        /\ clickWrites[id] = 2
        /\ PositionOf(inbox, id) # 0
        /\ inbox[PositionOf(inbox, id)].clicked


\* ---------------------------------------------------------------------------
\* the ledger a starting trainer holds

\* the maps of the file, when there is a file and it parses
PersistedMaps ==
    IF learnedFile.exists /\ learnedFile.parses
    THEN [ss |-> learnedFile.strategyScores, pv |-> learnedFile.personaVulnerabilities,
          cb |-> learnedFile.combinations]
    ELSE [ss |-> EmptyMap, pv |-> EmptyMap, cb |-> EmptyMap]

\* the default scores of the statement, by level
ContractStrategyDefault(s) ==
    IF attackLevel(s) = "basic" THEN 20
    ELSE IF attackLevel(s) = "advanced" THEN 30
    ELSE IF attackLevel(s) = "expert" THEN 40
    ELSE -1

ContractPersonaDefault(p) ==
    IF accessLevel(p) = "Low" THEN 20
    ELSE IF accessLevel(p) = "Medium" THEN 30
    ELSE IF accessLevel(p) = "High" THEN 40
    ELSE IF accessLevel(p) = "Critical" THEN 50
    ELSE -1

\* the trainer has just been constructed: nothing learned or saved since
JustConstructed == inboxRead = "none" /\ saved = "none"

MergedWithDefaults ==
    /\ \A k \in DOMAIN PersistedMaps.ss :
         k \in DOMAIN strategyScores /\ strategyScores[k] = PersistedMaps.ss[k]
    /\ \A k \in DOMAIN PersistedMaps.pv :
         k \in DOMAIN personaVulnerabilities
           /\ personaVulnerabilities[k] = PersistedMaps.pv[k]
    /\ combinations = PersistedMaps.cb
    /\ DOMAIN strategyScores = DOMAIN PersistedMaps.ss \cup Strategies
    /\ DOMAIN personaVulnerabilities = DOMAIN PersistedMaps.pv \cup PersonaIds
    /\ \A s \in Strategies \ DOMAIN PersistedMaps.ss :
         /\ strategyScores[s].attempts = 0
         /\ strategyScores[s].score = ContractStrategyDefault(s) * ScoreScale
    /\ \A p \in PersonaIds \ DOMAIN PersistedMaps.pv :
         /\ personaVulnerabilities[p].attempts = 0
         /\ personaVulnerabilities[p].vulnerabilityScore =
                ContractPersonaDefault(p) * ScoreScale

ContractUrlPenalty(url, senderDomain) ==
    (IF senderDomain # "" /\ url.bare # senderDomain THEN 30 ELSE 0)
    + (IF url.suspicious THEN 25 ELSE 0)
    + (IF url.longShortener THEN 20 ELSE 0)
    + (IF url.ip THEN 35 ELSE 0)
    + (IF url.http THEN 15 ELSE 0)

RECURSIVE ContractPenalties(_, _)
ContractPenalties(urls, senderDomain) ==
    IF urls = <<>> THEN 0
    ELSE ContractUrlPenalty(Head(urls), senderDomain)
         + ContractPenalties(Tail(urls), senderDomain)

ContractUrlScore(urls, senderDomain) ==
    Max(0, Min(100, 100 - ContractPenalties(urls, senderDomain)))

\* C22: for every URL list and sender, URLAnalyzer.analyzeAuthenticity and the
\* defense agent's analyzeUrlAuthenticity both return 100 minus the five
\* penalties summed over the URLs, clamped to 0..100
C22_UrlScoreAtBothSites ==
    analysis.done =>
        /\ analysis.urlAnalyzer = ContractUrlScore(givenEmail.urls, givenEmail.sender.domain)
        /\ analysis.agentUrls = ContractUrlScore(givenEmail.urls, givenEmail.sender.domain)

\* URLAnalyzer alone does return that score
C22_AnalyzerFollowsFormula ==
    analysis.done =>
        analysis.urlAnalyzer = ContractUrlScore(givenEmail.urls, givenEmail.sender.domain)

\* one URL that only the suspicious patterns match: 75 from URLAnalyzer, 100 from
\* the defense agent
C22_Witness ==
    /\ analysis.done
    /\ Len(givenEmail.urls) = 1
    /\ givenEmail.urls[1].suspicious
    /\ analysis.urlAnalyzer = 75
    /\ analysis.agentUrls = 100

\* C23: in both implementations the score is 100 for an empty URL list, lies in
\* 0..100 for every list, and does not grow when one more URL is appended
C23_UrlScoreBoundedMonotone ==
    analysis.done =>
        /\ Len(givenEmail.urls) = 0 => analysis.urlAnalyzer = 100 /\ analysis.agentUrls = 100
        /\ analysis.urlAnalyzer \in 0..100
        /\ analysis.agentUrls \in 0..100
        /\ \A url \in UrlSamples :
             /\ analyzeAuthenticity(Append(givenEmail.urls, url), givenEmail.sender.domain)
                    <= analysis.urlAnalyzer
             /\ analyzeUrlAuthenticity(Append(givenEmail.urls, url), givenEmail.sender.domain)
                    <= analysis.agentUrls

\* two URLs whose penalties pass 100 together: both scores stand at the floor
C23_Witness ==
    /\ analysis.done
    /\ Len(givenEmail.urls) = 2
    /\ ContractPenalties(givenEmail.urls, givenEmail.sender.domain) > 100
    /\ analysis.urlAnalyzer = 0
    /\ analysis.agentUrls = 0


\* ---------------------------------------------------------------------------
\* the combined scores of extractFeatures

\* the weighted sums the statement gives the two combined scores
ContractSuspicionScore(f) ==
    4 * f.credentialKeywords + 3 * f.securityKeywords + 3 * f.threatKeywords
    + 2 * f.callToActionKeywords
    + (IF f.urlAuthenticityScore < 50 THEN 10 ELSE 0)
    + (IF f.senderAuthenticityScore < 50 THEN 8 ELSE 0)

ContractUrgencyScore(f) ==
    3 * f.urgencyKeywords + (IF f.hasExcessivePunctuation THEN 5 ELSE 0)
    + (IF f.subjectAllCaps THEN 8 ELSE 0)

\* C24: the feature set extractFeatures returns carries totalSuspicionScore and
\* totalUrgencyScore equal to the weighted sums of its other features
C24_CombinedScoresAreSums ==
    analysis.done =>
        /\ analysis.features.totalSuspicionScore = ContractSuspicionScore(analysis.features)
        /\ analysis.features.totalUrgencyScore = ContractUrgencyScore(analysis.features)

\* the returned feature set always carries 0 for both, and the leaf of rule 4
\* (high, 70) is never the verdict
C24_CombinedScoresStayZero ==
    analysis.done =>
        /\ analysis.features.totalSuspicionScore = 0
        /\ analysis.features.totalUrgencyScore = 0
        /\ analysis.tree.riskScore # 70

\* an email rules 1 to 3 pass over whose weighted suspicion sum reaches 20: the
\* returned total is 0 and a later rule decides
C24_Witness ==
    /\ analysis.done
    /\ ContractSuspicionScore(analysis.features) >= 20
    /\ analysis.features.totalSuspicionScore = 0
    /\ analysis.tree.riskScore < 70


\* ---------------------------------------------------------------------------
\* the two classifiers on one email

\* C25: for every email, classifyEmail and DecisionTreeClassifier.classify assign
\* the same riskLevel
C25_SameVerdict ==
    analysis.done => analysis.inline.riskLevel = analysis.tree.riskLevel

\* an email without URLs, two urgency and two credential keywords: rule 2 of the
\* tree says high, the inline score stays under 75
C25_Witness ==
    /\ analysis.done
    /\ Len(givenEmail.urls) = 0
    /\ analysis.features.urgencyKeywords >= 2
    /\ analysis.features.credentialKeywords >= 2
    /\ analysis.tree.riskLevel = "high"
    /\ analysis.inline.riskLevel = "medium"


\* ---------------------------------------------------------------------------
\* the email with one https URL on a host other than the sender's domain

\* the emails of kind lure the cycle has classified
AnalysedLures ==
    {i \in DOMAIN emails :
        emails[i].kind = "lure" /\ emails[i].mlClassification # NoClassification}

LureUrlScore ==
    analyzeUrlAuthenticity(EmailContents["lure"].urls, EmailContents["lure"].senderDomain)

\* C26: the email whose only URL is https://evil.test/login, sent from
\* it@bank.com, gets a URL authenticity score of at most 70 and a high verdict,
\* and is blocked by the defense cycle that analyses it
C26_MismatchedUrlBlocked ==
    \A i \in AnalysedLures :
        /\ LureUrlScore <= 70
        /\ emails[i].mlClassification.riskLevel = "high"
        /\ emails[i].status = "blocked"

\* the score part does hold
C26_MismatchedUrlScore ==
    \A i \in AnalysedLures : LureUrlScore <= 70

\* the cycle has analysed such an email: score 50, medium, reported
C26_Witness ==
    \E i \in AnalysedLures :
        /\ LureUrlScore = 70
        /\ emails[i].mlClassification.riskScore = 50
        /\ emails[i].mlClassification.riskLevel = "medium"
        /\ emails[i].status = "reported"


\* ---------------------------------------------------------------------------
\* risk levels and risk scores, inline classifier and generated email

\* the level the statement gives a compact score
ContractLevel(score) ==
    IF score >= 75 THEN "high" ELSE IF score >= 50 THEN "medium" ELSE "low"

\* C27: the riskLevel classifyEmail writes and the riskLevel of a generated
\* email are both high exactly from 75 on, medium from 50 to 74, low below
C27_LevelFromScore ==
    analysis.done =>
        IF givenEmail.given
        THEN analysis.inline.riskLevel = ContractLevel(analysis.inline.riskScore)
        ELSE analysis.generated.riskLevel = ContractLevel(analysis.generated.riskScore)

\* classifyEmail alone does bucket that way
C27_InlineLevelFromScore ==
    analysis.done /\ givenEmail.given =>
        analysis.inline.riskLevel = ContractLevel(analysis.inline.riskScore)

\* a generated email of the basic strategy with an urgent subject and an asap
\* content: score 70, marked high
C27_Witness ==
    /\ analysis.done
    /\ ~givenEmail.given
    /\ attackLevel(givenEmail.strategy) = "basic"
    /\ analysis.generated.riskScore = 70
    /\ analysis.generated.riskLevel = "high"

\* C28: every riskScore written, by DecisionTreeClassifier.classify, by
\* classifyEmail or by calculateRiskScore, is an integer in 0..100
C28_RiskScoreInRange ==
    analysis.done =>
        IF givenEmail.given
        THEN /\ analysis.tree.riskScore \in 0..100
             /\ analysis.inline.riskScore \in 0..100
        ELSE analysis.generated.riskScore \in 0..100

\* the expert strategy with every counted word: the additions come to 120 and
\* the written score is 100
C28_Witness ==
    /\ analysis.done
    /\ ~givenEmail.given
    /\ attackLevel(givenEmail.strategy) = "expert"
    /\ givenEmail.subject # {}
    /\ givenEmail.content = {"credentials", "password", "immediately", "asap"}
    /\ analysis.generated.riskScore = 100


\* ---------------------------------------------------------------------------
\* exceptions and overlap of cycles in one agent process

\* C29: no exception raised inside a cycle, the initial cycle of run() included,
\* terminates the agent process
C29_NoCycleErrorEndsProcess ==
    agentRun.exit # "exit1"

\* an exception in a cycle the timer started never ends the process: once the
\* timer is installed the process ends by shutdown alone
C29_TimerCyclesAreCaught ==
    [][agentRun.cycleInterval => agentRun'.exit \in {"none", "exit0"}]_vars

\* the initial defense cycle threw: the process has exited with code 1 before
\* any timer was installed and before any error was logged by runCycle
C29_Witness ==
    /\ agentRun.agent = "defense"
    /\ agentRun.exit = "exit1"
    /\ agentRun.started = 1
    /\ ~agentRun.cycleInterval
    /\ agentRun.cycleErrors = 0

\* C30: within one agent process the timer never starts a cycle while an earlier
\* cycle of that agent is still in flight
C30_CyclesNeverOverlap ==
    Cardinality(InFlight) <= 1

\* the initial cycle at least is never overlapped
C30_InitialCycleAlone ==
    \A c \in InFlight : cyclesInFlight[c].initial => InFlight = {c}

\* two defense cycles started by the timer are in flight together
C30_Witness ==
    /\ agentRun.agent = "defense"
    /\ agentRun.exit = "none"
    /\ \E c, d \in InFlight :
         /\ c < d
         /\ ~cyclesInFlight[c].initial
         /\ ~cyclesInFlight[d].initial


\* ---------------------------------------------------------------------------
\* the writers of the inbox file

\* C31: the write-back of a defense cycle replaces the inbox file with the
\* snapshot the cycle read and worked on: whatever the server appended or
\* persisted in between is absent from the file afterwards
C31_LastWriterWins ==
    [][defensePhase = "analyzing" /\ defensePhase' = "idle" /\ inbox' # inbox
           => inbox' = emails]_vars

\* a click the server persisted during a cycle is gone after the cycle's write:
\* the file is the cycle's snapshot and shows the email unclicked
C31_Witness ==
    /\ defensePhase = "idle"
    /\ inbox = emails
    /\ \E i \in DOMAIN inbox :
         /\ ClickWritesOf(inbox[i].id) > 0
         /\ ~inbox[i].clicked


\* ---------------------------------------------------------------------------
\* one record per generated email

CountsOneAttempt ==
    /\ strategyScores'[generatedEmails[1].strategy].attempts
           = AttemptsOf(strategyScores, generatedEmails[1].strategy) + 1
    /\ personaVulnerabilities'[generatedEmails[1].persona].attempts
           = AttemptsOf(personaVulnerabilities, generatedEmails[1].persona) + 1
    /\ combinations'[<<generatedEmails[1].strategy, generatedEmails[1].persona>>].attempts
           = AttemptsOf(combinations,
                        <<generatedEmails[1].strategy, generatedEmails[1].persona>>) + 1

\* the emails learned so far are those with ids 1..learnedCount
RecordsOnce ==
    IF IsLearnStep
    THEN /\ Len(generatedEmails) = 1
         /\ generatedEmails[1].id = learnedCount + 1
         /\ learnedCount' = learnedCount + 1
         /\ generatedEmails' = <<>>
         /\ CountsOneAttempt
    ELSE LedgerUnchanged

QualifiedIn(cb, personaId) == {s \in Strategies : comboQualifies(cb, s, personaId)}

IsChooseStep == generatedEmails = <<>> /\ generatedEmails' # <<>>

\* a choice made when some combination of the target qualifies comes from the
\* combinations and is a strategy whose combination qualifies
ChoosesQualifying ==
    (IsChooseStep /\ QualifiedIn(combinations, selectedTargets'[1]) # {}) =>
        /\ strategyBy' = "combination"
        /\ bestStrategy' \in QualifiedIn(combinations, selectedTargets'[1])

\* a combination that qualifies goes on qualifying
StaysQualifying ==
    \A p \in PersonaIds : QualifiedIn(combinations, p) \subseteq QualifiedIn(combinations', p)

\* C33: once some combination of persona p has attempts >= minAttemptsForLearning,
\* every later getBestStrategyForPersona(p) returns a strategy whose combination
\* qualifies and never falls back to selectBestStrategy, even when every
\* qualifying combination has score 0
C33_NoFallbackOnceQualified == [][ChoosesQualifying /\ StaysQualifying]_vars

\* a strategy was chosen from the combinations for a persona whose only
\* qualifying combination had never bypassed nor been clicked
C33_Witness ==
    /\ generatedEmails # <<>>
    /\ strategyBy = "combination"
    /\ QualifiedIn(combinations, selectedTargets[1]) = {bestStrategy}
    /\ combinations[<<bestStrategy, selectedTargets[1]>>].bypassRate = 0
    /\ combinations[<<bestStrategy, selectedTargets[1]>>].clickRate = 0


\* ---------------------------------------------------------------------------
\* the seeded default scores

\* other values initializeDefaultScores could have seeded, in percent
SeedValues == {0, 100}

\* the ledger of a trainer that differs only in what was seeded: every strategy
\* and persona entry without attempts carries the seed value v instead
SeededWith(ledger, v) ==
    [ss |-> [k \in DOMAIN ledger.ss |->
                IF ledger.ss[k].attempts = 0
                THEN [ledger.ss[k] EXCEPT !.bypassRate = v * RateScale,
                                          !.score = v * ScoreScale]
                ELSE ledger.ss[k]],
     pv |-> [k \in DOMAIN ledger.pv |->
                IF ledger.pv[k].attempts = 0
                THEN [ledger.pv[k] EXCEPT !.bypassRate = v * RateScale,
                                          !.vulnerabilityScore = v * ScoreScale]
                ELSE ledger.pv[k]],
     cb |-> ledger.cb]

\* what the inbox can hold of the cycle's email: nothing, the email blocked, the
\* email delivered, the email delivered and clicked
SeededViews ==
    {view \in InboxViews(1) :
        1 \in DOMAIN view => \/ view[1].status = "delivered"
                              \/ (view[1].status = "blocked" /\ ~view[1].clicked)}

\* the two trainers make the same choices
SameChoices(other) ==
    /\ selectBestTargets(allPersonas, other.pv, MAX_TARGETS_PER_CYCLE)
         = selectBestTargets(allPersonas, personaVulnerabilities, MAX_TARGETS_PER_CYCLE)
    /\ selectBestStrategy(allStrategies, other.ss)
         = selectBestStrategy(allStrategies, strategyScores)
    /\ \A p \in PersonaIds :
         getBestStrategyForPersona(allStrategies, p, other.cb, other.ss, explorationRate)
           = getBestStrategyForPersona(allStrategies, p, combinations, strategyScores,
                                       explorationRate)

\* after the same cycle the two ledgers differ again in nothing but the seeds of
\* the entries still without attempts
SameRecords(other, v) ==
    \A s \in Strategies, p \in PersonaIds, inboxView \in SeededViews :
        LET emailsGenerated == <<[id |-> 1, strategy |-> s, persona |-> p]>> IN
        learnFromCycle(other, emailsGenerated, ReadableInbox(inboxView))
          = SeededWith(learnFromCycle(Ledger, emailsGenerated, ReadableInbox(inboxView)), v)

\* C34: a trainer that differs from this one only in the seed values of the
\* entries with 0 attempts makes the same selectBestTargets, getBestStrategyForPersona
\* and selectBestStrategy choices, and records every cycle into the same values
C34_SeedsNeverMatter ==
    \A v \in SeedValues :
        /\ SameChoices(SeededWith(Ledger, v))
        /\ SameRecords(SeededWith(Ledger, v), v)

\* a strategy chosen in exploitation while one strategy has a record and
\* another still carries its seed
C34_Witness ==
    /\ strategyBy = "exploitation"
    /\ \E s \in Strategies : strategyScores[s].attempts > 0
    /\ \E s \in Strategies :
         /\ strategyScores[s].attempts = 0
         /\ strategyScores[s].score > 0
    /\ \E p \in PersonaIds :
         /\ personaVulnerabilities[p].attempts = 0
         /\ personaVulnerabilities[p].vulnerabilityScore > 0

\* the attempts of the combination entries under the keys, absent entries counting 0
RECURSIVE CombinationAttempts(_, _)
CombinationAttempts(cb, keys) ==
    IF keys = {} THEN 0
    ELSE LET ck == CHOOSE k \in keys : TRUE IN
         (IF ck \in DOMAIN cb THEN cb[ck].attempts ELSE 0)
           + CombinationAttempts(cb, keys \ {ck})

EntriesBounded(entries) ==
    \A k \in DOMAIN entries : entries[k].successes <= entries[k].attempts

\* C35: from an empty ledger, with every learned email carrying a persona, the
\* attempts of a persona are the sum of the attempts of its combinations, the
\* attempts of a strategy are the sum of the attempts of its combinations, and
\* no entry has more successes than attempts
C35_AttemptsAddUp ==
    /\ \A p \in PersonaIds :
         (IF p \in DOMAIN personaVulnerabilities THEN personaVulnerabilities[p].attempts ELSE 0)
           = CombinationAttempts(combinations, {ck \in CombinationKeys : ck[2] = p})
    /\ \A s \in Strategies :
         (IF s \in DOMAIN strategyScores THEN strategyScores[s].attempts ELSE 0)
           = CombinationAttempts(combinations, {ck \in CombinationKeys : ck[1] = s})
    /\ EntriesBounded(strategyScores)
    /\ EntriesBounded(personaVulnerabilities)
    /\ EntriesBounded(combinations)

\* a persona learned under two strategies and a strategy learned on two
\* personas, one of the emails not bypassing
C35_Witness ==
    /\ \E p \in PersonaIds : \E s1, s2 \in Strategies :
         /\ s1 # s2
         /\ <<s1, p>> \in DOMAIN combinations /\ combinations[<<s1, p>>].attempts > 0
         /\ <<s2, p>> \in DOMAIN combinations /\ combinations[<<s2, p>>].attempts > 0
         /\ personaVulnerabilities[p].successes > 0
         /\ personaVulnerabilities[p].successes < personaVulnerabilities[p].attempts
    /\ \E s \in Strategies : \E p1, p2 \in PersonaIds :
         /\ p1 # p2
         /\ <<s, p1>> \in DOMAIN combinations /\ combinations[<<s, p1>>].attempts > 0
         /\ <<s, p2>> \in DOMAIN combinations /\ combinations[<<s, p2>>].attempts > 0

\* C36: no email id is classified twice, and the totals count no more emails
\* than ids have been classified
C36_ClassifiedOnce ==
    /\ \A id \in DOMAIN timesClassified : timesClassified[id] <= 1
    /\ stats.totalEmailsAnalyzed <= Cardinality(DOMAIN timesClassified)

\* an email classified a second time while its id is in the processed set and
\* its status in the inbox file still delivered
C36_ClassifiedAgainWhileProcessed ==
    \E id \in DOMAIN timesClassified :
        /\ timesClassified[id] = 2
        /\ id \in processedEmailIds
        /\ restarts = 0
        /\ \E i \in DOMAIN inbox : inbox[i].id = id /\ inbox[i].status = "delivered"

\* two ids classified and three emails counted, in memory and in the metrics file
C36_CountedTwice ==
    /\ DOMAIN timesClassified = {1, 2}
    /\ restarts = 0
    /\ metricsFile.stats.totalEmailsAnalyzed = 3
    /\ stats.totalEmailsAnalyzed = 3

\* the events of run r, in the order of the log: name and phantom mark
EventsOfRun(r) ==
    LET OfRun(e) == e.run = r
        own == SelectSeq(events, OfRun)
    IN  [k \in DOMAIN own |-> <<own[k].event, own[k].phantom>>]

\* the logs a run may have left: sent, opened, clicked, reported in that order,
\* a report also after an open without click, a phantom click only after sent
OrdersOfRun ==
    {<<<<"sent", FALSE>>>>,
     <<<<"sent", FALSE>>, <<"opened", FALSE>>>>,
     <<<<"sent", FALSE>>, <<"opened", FALSE>>, <<"clicked", FALSE>>>>,
     <<<<"sent", FALSE>>, <<"opened", FALSE>>, <<"clicked", FALSE>>, <<"reported", FALSE>>>>,
     <<<<"sent", FALSE>>, <<"opened", FALSE>>, <<"reported", FALSE>>>>,
     <<<<"sent", FALSE>>, <<"clicked", TRUE>>>>}

PhantomClickOfBlockedEmail ==
    \E k \in DOMAIN events :
        /\ events[k].phantom
        /\ k = Len(events)
        /\ \E i \in DOMAIN inbox :
             inbox[i].id = events[k].emailId /\ inbox[i].status = "blocked"

====
